---- MODULE Spec2Model ----
(***************************************************************************)
(* State-machine model of the simulation core of "Laboratorio de Fisica":  *)
(* the App shell mounts one demo component at a time; each demo keeps its  *)
(* React state, its refs and at most one requested animation frame.        *)
(*                                                                         *)
(* One action is one event handler or one frame callback together with the *)
(* re-render and the effects React runs for the state it changed.          *)
(*                                                                         *)
(* Numbers.  JavaScript doubles are modelled in fixed point:               *)
(*   time                 milliseconds (the code divides by 1000)          *)
(*   pendulum angle       milliradians, angular velocity mrad/s            *)
(*   pendulum length      tenths of a metre, gravity hundredths of m/s^2   *)
(*   incline position     millimetres, velocity mm/s, acceleration         *)
(*                        1e-4 m/s^2, mass half kilograms, friction 1/100  *)
(*   MRU/MRUV position    millimetres, velocity mm/s, acceleration (MRUV   *)
(*                        slider) tenths of m/s^2, totalTime seconds       *)
(*   projectile progress  thousandths of a percent                         *)
(* Divisions truncate toward zero.                                         *)
(***************************************************************************)
EXTENDS Integers, Sequences, FiniteSets, TLC

VARIABLES activeTool,   \* App: which demo component is mounted
          clock,        \* performance.now(), in ms
          frameStamp,   \* timestamp handed to the latest frame callback
          passes,       \* number of time advances so far
          frames,       \* frame callbacks delivered since time last passed
          pendulum,     \* SimplePendulum component
          incline,      \* InclinedPlane component
          mru,          \* MRU component
          mruv,         \* MRUV component
          projectile,   \* ProjectileMotion component
          psim,         \* ParticleSimulator component
          obs           \* what the latest action did (operation, delta fed)

vars == <<activeTool, clock, frameStamp, passes, frames, pendulum, incline,
          mru, mruv, projectile, psim, obs>>

----------------------------------------------------------------------------
(* Bounds of the exploration *)

MaxPasses == 3
MaxBurst == 1
MaxTicks == 1
FrameLag == 16
Gaps == {1000}

----------------------------------------------------------------------------
(* Arithmetic helpers *)

Abs(x) == IF x < 0 THEN -x ELSE x

\* JavaScript division of doubles, kept in fixed point: truncate toward zero
Quot(a, b) ==
    IF (a >= 0) = (b > 0) THEN Abs(a) \div Abs(b) ELSE -(Abs(a) \div Abs(b))

Min(a, b) == IF a < b THEN a ELSE b

RECURSIVE SqrtIter(_, _)
SqrtIter(n, x) ==
    LET y == (x + n \div x) \div 2
    IN  IF y >= x THEN x ELSE SqrtIter(n, y)

\* Math.sqrt, rounded down to a whole thousandth of a pixel
Sqrt(n) == IF n = 0 THEN 0 ELSE SqrtIter(n, Min(n, 46340))

\* a / b of doubles; a zero divisor gives Infinity or NaN in JavaScript,
\* which PsimPairForce records apart, the quotient then being immaterial
Div(a, b) == IF b = 0 THEN 0 ELSE Quot(a, b)

\* the ref value null
Null == -1

\* LabTool
LabTool == {"PROJECTILE_MOTION", "PARTICLE_SIMULATOR", "WAVE_INTERFERENCE",
            "MRU", "MRUV", "SIMPLE_PENDULUM", "INCLINED_PLANE"}

\* timestamps a frame callback can receive when the wall clock reads `clock`:
\* the frame's begin time, which is never before the previous frame's and
\* may lie up to FrameLag before the reading of performance.now()
FrameStamps == {t \in {clock - FrameLag, clock} : t >= frameStamp /\ t > 0}

\* the record kept of the latest action: the operation, whether the demo was
\* running when it began and, for a frame callback, whether a delta was fed
\* to the integrator, that delta in ms, and whether the frame was the first
\* one delivered since the frame loop was (re)started
Obs(op, wasRunning) ==
    [op |-> op, wasRunning |-> wasRunning, stepped |-> FALSE, delta |-> 0,
     first |-> FALSE]

----------------------------------------------------------------------------
(* SimplePendulum *)

PendulumLengths == {20, 50}
PendulumMasses == {10, 20}
PendulumAngles == {30, 10}
PendulumGravities == {981, 100}

\* (initialAngle * Math.PI) / 180, in milliradians
DegToRad(deg) == Quot(deg * 3142, 180)

PendulumNoFrame == [pending |-> FALSE, gravity |-> 0, length |-> 0]

PendulumInitialSim(initialAngle) ==
    [angle |-> DegToRad(initialAngle), angularVelocity |-> 0, time |-> 0,
     lastUpdateTime |-> 0]

PendulumMounted ==
    [length |-> 20, mass |-> 10, initialAngle |-> 30, gravity |-> 981,
     isRunning |-> FALSE, sim |-> PendulumInitialSim(30),
     raf |-> PendulumNoFrame, fresh |-> FALSE, queued |-> 0]

\* cancelAnimationFrame(animationFrameId): the callback the id stands for
\* leaves the browser's queue, if it is still there
PendulumCancelFrame(p) ==
    IF p.raf.pending
    THEN [p EXCEPT !.raf = PendulumNoFrame, !.queued = @ - 1]
    ELSE p

\* animationFrameId = requestAnimationFrame(animate), animate being the
\* closure of the render p
PendulumRequestFrame(p) ==
    [p EXCEPT !.raf = [pending |-> TRUE, gravity |-> p.gravity,
                       length |-> p.length],
              !.queued = @ + 1]

\* useEffect(..., [isRunning, gravity, length, draw]): cleanup of the previous
\* run cancels the requested frame; when running, the baseline is read from
\* performance.now() and a frame is requested for this render's closure
PendulumAnimateEffect(p) ==
    IF p.isRunning
    THEN PendulumRequestFrame([PendulumCancelFrame(p) EXCEPT
                                 !.sim.lastUpdateTime = clock,
                                 !.fresh = TRUE])
    ELSE [PendulumCancelFrame(p) EXCEPT !.fresh = FALSE]

\* resetState without setIsRunning(false)
PendulumResetState_keepsRunning(p) ==
    [p EXCEPT !.sim = PendulumInitialSim(p.initialAngle)]

\* resetState
PendulumResetState(p) ==
    [p EXCEPT !.isRunning = FALSE, !.sim = PendulumInitialSim(p.initialAngle)]

\* a render in which a parameter changed: the animate effect re-runs when one
\* of its dependencies changed (draw depends on length and mass), then the
\* effect watching the parameters calls resetState, and the render this
\* causes re-runs the animate effect when isRunning changed
PendulumCommit(old, new) ==
    LET e1 == IF new.gravity # old.gravity \/ new.length # old.length
                 \/ new.mass # old.mass
              THEN PendulumAnimateEffect(new) ELSE new
        e2 == PendulumResetState(e1)
    IN  IF e2.isRunning # e1.isRunning THEN PendulumAnimateEffect(e2) ELSE e2

\* a render caused by setters called with the values in `new`; React skips
\* the render when no state value differs
PendulumSetParams(old, new) ==
    IF new = old THEN old ELSE PendulumCommit(old, new)

\* the Iniciar/Pausar button: setIsRunning(!isRunning)
SimplePendulum_playPause ==
    /\ activeTool = "SIMPLE_PENDULUM"
    /\ pendulum' = PendulumAnimateEffect(
                      [pendulum EXCEPT !.isRunning = ~pendulum.isRunning])
    /\ obs' = Obs("playPause", pendulum.isRunning)
    /\ UNCHANGED <<activeTool, clock, frameStamp, passes, frames, incline,
                   mru, mruv, projectile, psim>>

\* the four sliders
SimplePendulum_setLength ==
    /\ activeTool = "SIMPLE_PENDULUM"
    /\ \E v \in PendulumLengths \ {pendulum.length} :
         pendulum' = PendulumSetParams(pendulum, [pendulum EXCEPT !.length = v])
    /\ obs' = Obs("setParameter", pendulum.isRunning)
    /\ UNCHANGED <<activeTool, clock, frameStamp, passes, frames, incline,
                   mru, mruv, projectile, psim>>

SimplePendulum_setMass ==
    /\ activeTool = "SIMPLE_PENDULUM"
    /\ \E v \in PendulumMasses \ {pendulum.mass} :
         pendulum' = PendulumSetParams(pendulum, [pendulum EXCEPT !.mass = v])
    /\ obs' = Obs("setParameter", pendulum.isRunning)
    /\ UNCHANGED <<activeTool, clock, frameStamp, passes, frames, incline,
                   mru, mruv, projectile, psim>>

SimplePendulum_setInitialAngle ==
    /\ activeTool = "SIMPLE_PENDULUM"
    /\ \E v \in PendulumAngles \ {pendulum.initialAngle} :
         pendulum' = PendulumSetParams(pendulum,
                                       [pendulum EXCEPT !.initialAngle = v])
    /\ obs' = Obs("setParameter", pendulum.isRunning)
    /\ UNCHANGED <<activeTool, clock, frameStamp, passes, frames, incline,
                   mru, mruv, projectile, psim>>

SimplePendulum_setGravity ==
    /\ activeTool = "SIMPLE_PENDULUM"
    /\ \E v \in PendulumGravities \ {pendulum.gravity} :
         pendulum' = PendulumSetParams(pendulum,
                                       [pendulum EXCEPT !.gravity = v])
    /\ obs' = Obs("setParameter", pendulum.isRunning)
    /\ UNCHANGED <<activeTool, clock, frameStamp, passes, frames, incline,
                   mru, mruv, projectile, psim>>

\* handleReset: the four setters with the default values; the state is reset
\* only by the effect watching the parameters
SimplePendulum_handleReset ==
    /\ activeTool = "SIMPLE_PENDULUM"
    /\ pendulum' = PendulumSetParams(pendulum,
                      [pendulum EXCEPT !.length = 20, !.mass = 10,
                                       !.initialAngle = 30, !.gravity = 981])
    /\ obs' = Obs("reset", pendulum.isRunning)
    /\ UNCHANGED <<activeTool, clock, frameStamp, passes, frames, incline,
                   mru, mruv, projectile, psim>>

PendulumStep_angleFirst(sim, gravity, length, deltaTime) ==
    LET angularAcceleration == -Quot(gravity * sim.angle, 10 * length)
        v1 == sim.angularVelocity + Quot(angularAcceleration * deltaTime, 1000)
        v2 == Quot(v1 * 999, 1000)
    IN  [sim EXCEPT !.angularVelocity = v2,
                    !.angle = sim.angle
                              + Quot(sim.angularVelocity * deltaTime, 1000),
                    !.time = sim.time + deltaTime]

\* the body of animate guarded by lastUpdateTime > 0, for a delta in ms
PendulumStep(sim, gravity, length, deltaTime) ==
    LET angularAcceleration == -Quot(gravity * sim.angle, 10 * length)
        v1 == sim.angularVelocity + Quot(angularAcceleration * deltaTime, 1000)
        v2 == Quot(v1 * 999, 1000)
    IN  [sim EXCEPT !.angularVelocity = v2,
                    !.angle = sim.angle + Quot(v2 * deltaTime, 1000),
                    !.time = sim.time + deltaTime]

PendulumAfterFrame_stopsAtTurn(p, sim1, timestamp) ==
    [p EXCEPT !.sim = [sim1 EXCEPT !.lastUpdateTime = timestamp],
              !.fresh = FALSE,
              !.queued = (@ - 1) + 1,
              !.isRunning = @ /\ sim1.angularVelocity # 0]

\* the component after one run of animate: simState.current holds the
\* integrated state and the timestamp, the frame is requested again, and no
\* React state is set
PendulumAfterFrame(p, sim1, timestamp) ==
    [p EXCEPT !.sim = [sim1 EXCEPT !.lastUpdateTime = timestamp],
              !.fresh = FALSE,
              !.queued = (@ - 1) + 1]

\* animate(timestamp): the callback has left the queue and ends by requesting
\* itself again
SimplePendulum_animate ==
    /\ activeTool = "SIMPLE_PENDULUM"
    /\ pendulum.raf.pending
    /\ frames < MaxBurst
    /\ \E timestamp \in FrameStamps :
         LET sim == pendulum.sim
             stepping == sim.lastUpdateTime > 0
             deltaTime == timestamp - sim.lastUpdateTime
             sim1 == IF stepping
                     THEN PendulumStep(sim, pendulum.raf.gravity,
                                       pendulum.raf.length, deltaTime)
                     ELSE sim
         IN  /\ pendulum' = PendulumAfterFrame(pendulum, sim1, timestamp)
             /\ obs' = [op |-> "frame", wasRunning |-> pendulum.isRunning,
                        stepped |-> stepping,
                        delta |-> IF stepping THEN deltaTime ELSE 0,
                        first |-> pendulum.fresh]
             /\ frameStamp' = timestamp
    /\ frames' = frames + 1
    /\ UNCHANGED <<activeTool, clock, passes, incline, mru, mruv, projectile,
                   psim>>

----------------------------------------------------------------------------
(* InclinedPlane *)

InclineAngles == {30, 60}
InclineMasses == {10, 2}
InclineFrictions == {20, 100}

\* GRAVITY, in hundredths of m/s^2
GRAVITY == 981

\* maxPosition, in millimetres
MaxPosition == 15000

\* Math.sin and Math.cos of an angle given in degrees, in thousandths
Sin1000(deg) == CASE deg = 0 -> 0 [] deg = 5 -> 87 [] deg = 30 -> 500
                  [] deg = 45 -> 707 [] deg = 60 -> 866 [] deg = 90 -> 1000
Cos1000(deg) == CASE deg = 0 -> 1000 [] deg = 5 -> 996 [] deg = 30 -> 866
                  [] deg = 45 -> 707 [] deg = 60 -> 500 [] deg = 90 -> 0

\* the acceleration without the test of the sign of the net force
InclineAcceleration_unclamped(angle, mass, friction) ==
    Quot(mass * GRAVITY * Sin1000(angle)
           - Quot(friction * mass * GRAVITY * Cos1000(angle), 100),
         mass * 10)

\* the acceleration taken from the magnitude of the net force
InclineAcceleration_magnitude(angle, mass, friction) ==
    Quot(Abs(mass * GRAVITY * Sin1000(angle)
               - Quot(friction * mass * GRAVITY * Cos1000(angle), 100)),
         mass * 10)

\* calculations.acceleration, in 1e-4 m/s^2
InclineAcceleration(angle, mass, friction) ==
    LET forceParallel == mass * GRAVITY * Sin1000(angle)
        forceNormal == mass * GRAVITY * Cos1000(angle)
        forceFriction == Quot(friction * forceNormal, 100)
        netForce == forceParallel - forceFriction
    IN  IF netForce > 0 THEN Quot(netForce, mass * 10) ELSE 0

InclineNoFrame == [pending |-> FALSE, acceleration |-> 0]

InclineInitialSim ==
    [position |-> 0, velocity |-> 0, time |-> 0, lastUpdateTime |-> 0]

InclineMounted ==
    [angle |-> 30, mass |-> 10, friction |-> 20, isRunning |-> FALSE,
     sim |-> InclineInitialSim, raf |-> InclineNoFrame, fresh |-> FALSE,
     queued |-> 0]

\* cancelAnimationFrame(animationFrameId)
InclineCancelFrame(p) ==
    IF p.raf.pending
    THEN [p EXCEPT !.raf = InclineNoFrame, !.queued = @ - 1]
    ELSE p

\* animationFrameId = requestAnimationFrame(animate)
InclineRequestFrame(p) ==
    [p EXCEPT !.raf = [pending |-> TRUE,
                       acceleration |->
                         InclineAcceleration(p.angle, p.mass, p.friction)],
              !.queued = @ + 1]

\* useEffect(..., [isRunning, calculations.acceleration, draw, angle])
InclineAnimateEffect(p) ==
    IF p.isRunning
    THEN InclineRequestFrame([InclineCancelFrame(p) EXCEPT
                                !.sim.lastUpdateTime = clock,
                                !.fresh = TRUE])
    ELSE [InclineCancelFrame(p) EXCEPT !.fresh = FALSE]

\* resetState
InclineResetState(p) ==
    [p EXCEPT !.isRunning = FALSE, !.sim = InclineInitialSim]

\* the render that follows a change of isRunning
InclineRender(old, new) ==
    IF new.isRunning # old.isRunning THEN InclineAnimateEffect(new) ELSE new

\* a render in which a parameter changed (draw depends on angle and mass)
InclineCommit(old, new) ==
    LET e1 == IF InclineAcceleration(new.angle, new.mass, new.friction)
                   # InclineAcceleration(old.angle, old.mass, old.friction)
                 \/ new.angle # old.angle \/ new.mass # old.mass
              THEN InclineAnimateEffect(new) ELSE new
    IN  InclineRender(e1, InclineResetState(e1))

InclinedPlane_playPause ==
    /\ activeTool = "INCLINED_PLANE"
    /\ incline' = InclineAnimateEffect(
                     [incline EXCEPT !.isRunning = ~incline.isRunning])
    /\ obs' = Obs("playPause", incline.isRunning)
    /\ UNCHANGED <<activeTool, clock, frameStamp, passes, frames, pendulum,
                   mru, mruv, projectile, psim>>

\* the Resetar button calls resetState
InclinedPlane_resetState ==
    /\ activeTool = "INCLINED_PLANE"
    /\ incline' = InclineRender(incline, InclineResetState(incline))
    /\ obs' = Obs("reset", incline.isRunning)
    /\ UNCHANGED <<activeTool, clock, frameStamp, passes, frames, pendulum,
                   mru, mruv, projectile, psim>>

InclinedPlane_setAngle ==
    /\ activeTool = "INCLINED_PLANE"
    /\ \E v \in InclineAngles \ {incline.angle} :
         incline' = InclineCommit(incline, [incline EXCEPT !.angle = v])
    /\ obs' = Obs("setParameter", incline.isRunning)
    /\ UNCHANGED <<activeTool, clock, frameStamp, passes, frames, pendulum,
                   mru, mruv, projectile, psim>>

InclinedPlane_setMass ==
    /\ activeTool = "INCLINED_PLANE"
    /\ \E v \in InclineMasses \ {incline.mass} :
         incline' = InclineCommit(incline, [incline EXCEPT !.mass = v])
    /\ obs' = Obs("setParameter", incline.isRunning)
    /\ UNCHANGED <<activeTool, clock, frameStamp, passes, frames, pendulum,
                   mru, mruv, projectile, psim>>

InclinedPlane_setFriction ==
    /\ activeTool = "INCLINED_PLANE"
    /\ \E v \in InclineFrictions \ {incline.friction} :
         incline' = InclineCommit(incline, [incline EXCEPT !.friction = v])
    /\ obs' = Obs("setParameter", incline.isRunning)
    /\ UNCHANGED <<activeTool, clock, frameStamp, passes, frames, pendulum,
                   mru, mruv, projectile, psim>>

\* the body of animate guarded by lastUpdateTime > 0, before the end test
InclineStep(sim, acceleration, deltaTime) ==
    LET v1 == sim.velocity + Quot(acceleration * deltaTime, 10000)
    IN  [sim EXCEPT !.velocity = v1,
                    !.position = sim.position + Quot(v1 * deltaTime, 1000),
                    !.time = sim.time + deltaTime]

\* the end test without the assignment of maxPosition
InclineClamp_missing(sim) == sim

\* position >= maxPosition: clamp
InclineClamp(sim) ==
    IF sim.position >= MaxPosition THEN [sim EXCEPT !.position = MaxPosition]
    ELSE sim

\* animate(timestamp); setIsRunning(false) at the end of the track causes a
\* render whose effect cleanup cancels the frame animate has just requested
InclinedPlane_animate ==
    /\ activeTool = "INCLINED_PLANE"
    /\ incline.raf.pending
    /\ frames < MaxBurst
    /\ \E timestamp \in FrameStamps :
         LET sim == incline.sim
             stepping == sim.lastUpdateTime > 0
             deltaTime == timestamp - sim.lastUpdateTime
             sim1 == IF stepping
                     THEN InclineStep(sim, incline.raf.acceleration, deltaTime)
                     ELSE sim
             atEnd == stepping /\ sim1.position >= MaxPosition
             sim2 == IF stepping THEN InclineClamp(sim1) ELSE sim1
             p1 == [incline EXCEPT
                      !.sim = [sim2 EXCEPT !.lastUpdateTime = timestamp],
                      !.fresh = FALSE,
                      !.isRunning = IF atEnd THEN FALSE ELSE @,
                      !.queued = (@ - 1) + 1]
         IN  /\ incline' = InclineRender(incline, p1)
             /\ obs' = [op |-> "frame", wasRunning |-> incline.isRunning,
                        stepped |-> stepping,
                        delta |-> IF stepping THEN deltaTime ELSE 0,
                        first |-> incline.fresh]
             /\ frameStamp' = timestamp
    /\ frames' = frames + 1
    /\ UNCHANGED <<activeTool, clock, passes, pendulum, mru, mruv, projectile,
                   psim>>

----------------------------------------------------------------------------
(* MRU *)
MRUPositions == {0, 5}
MRUVelocities == {10, -3}
MRUTotalTimes == {10, 1}

MRUNoFrame == [pending |-> FALSE, totalTime |-> 0]

MRUMounted ==
    [initialPosition |-> 0, velocity |-> 10, totalTime |-> 10,
     isRunning |-> FALSE, elapsedTime |-> 0, lastTimeRef |-> Null,
     raf |-> MRUNoFrame, fresh |-> FALSE, queued |-> 0]

\* cancelAnimationFrame(animationFrameId.current)
MRUCancelFrame(p) ==
    IF p.raf.pending
    THEN [p EXCEPT !.raf = MRUNoFrame, !.queued = @ - 1]
    ELSE p

MRURequestFrame_dropped(p) == p

\* animationFrameId.current = requestAnimationFrame(animate)
MRURequestFrame(p) ==
    [p EXCEPT !.raf = [pending |-> TRUE, totalTime |-> p.totalTime],
              !.queued = @ + 1]

\* useEffect(..., [isRunning]): when running, lastTimeRef is cleared and a
\* frame is requested for this render's animate; otherwise, and in the
\* cleanup, the requested frame is cancelled
MRURunningEffect(p) ==
    IF p.isRunning
    THEN MRURequestFrame([MRUCancelFrame(p) EXCEPT !.lastTimeRef = Null,
                                                   !.fresh = TRUE])
    ELSE [MRUCancelFrame(p) EXCEPT !.fresh = FALSE]

\* the render that follows the setters of a handler or of animate
MRURender(old, new) ==
    IF new.isRunning # old.isRunning THEN MRURunningEffect(new) ELSE new

\* handlePlayPause without the test of elapsedTime
MRUPlayPauseTime_kept(p) == p.elapsedTime

\* if (elapsedTime >= totalTime) setElapsedTime(0)
MRUPlayPauseTime(p) ==
    IF p.elapsedTime >= p.totalTime * 1000 THEN 0 ELSE p.elapsedTime

\* handlePlayPause
MRU_handlePlayPause ==
    /\ activeTool = "MRU"
    /\ mru' = MRURender(mru,
                  [mru EXCEPT !.elapsedTime = MRUPlayPauseTime(mru),
                              !.isRunning = ~mru.isRunning])
    /\ obs' = Obs("playPause", mru.isRunning)
    /\ UNCHANGED <<activeTool, clock, frameStamp, passes, frames, pendulum, incline, mruv, projectile, psim>>

\* handleReset
MRU_handleReset ==
    /\ activeTool = "MRU"
    /\ mru' = MRURender(mru,
                  [mru EXCEPT !.isRunning = FALSE, !.elapsedTime = 0,
                               !.initialPosition = 0, !.velocity = 10, !.totalTime = 10])
    /\ obs' = Obs("reset", mru.isRunning)
    /\ UNCHANGED <<activeTool, clock, frameStamp, passes, frames, pendulum, incline, mruv, projectile, psim>>

\* handleControlChange(setter)
MRUControlChange(p, new) ==
    MRURender(p, [new EXCEPT !.isRunning = FALSE, !.elapsedTime = 0])

MRU_setInitialPosition ==
    /\ activeTool = "MRU"
    /\ \E v \in MRUPositions \ {mru.initialPosition} :
         mru' = MRUControlChange(mru, [mru EXCEPT !.initialPosition = v])
    /\ obs' = Obs("setParameter", mru.isRunning)
    /\ UNCHANGED <<activeTool, clock, frameStamp, passes, frames, pendulum, incline, mruv, projectile, psim>>

MRU_setVelocity ==
    /\ activeTool = "MRU"
    /\ \E v \in MRUVelocities \ {mru.velocity} :
         mru' = MRUControlChange(mru, [mru EXCEPT !.velocity = v])
    /\ obs' = Obs("setParameter", mru.isRunning)
    /\ UNCHANGED <<activeTool, clock, frameStamp, passes, frames, pendulum, incline, mruv, projectile, psim>>

MRU_setTotalTime ==
    /\ activeTool = "MRU"
    /\ \E v \in MRUTotalTimes \ {mru.totalTime} :
         mru' = MRUControlChange(mru, [mru EXCEPT !.totalTime = v])
    /\ obs' = Obs("setParameter", mru.isRunning)
    /\ UNCHANGED <<activeTool, clock, frameStamp, passes, frames, pendulum, incline, mruv, projectile, psim>>

\* the updater passed to setElapsedTime, for a delta in ms
MRUNewTime(prevTime, deltaTime, totalTime) ==
    LET newTime == prevTime + deltaTime
    IN  IF newTime >= totalTime * 1000 THEN totalTime * 1000 ELSE newTime

\* animate(timestamp); setIsRunning(false) in the updater causes a render
\* whose effect cancels the frame animate has just requested
MRU_animate ==
    /\ activeTool = "MRU"
    /\ mru.raf.pending
    /\ frames < MaxBurst
    /\ \E timestamp \in FrameStamps :
         LET base == IF mru.lastTimeRef = Null THEN timestamp
                     ELSE mru.lastTimeRef
             deltaTime == timestamp - base
             done == mru.elapsedTime + deltaTime >= mru.raf.totalTime * 1000
             p1 == [mru EXCEPT
                      !.lastTimeRef = timestamp,
                      !.elapsedTime = MRUNewTime(@, deltaTime,
                                                mru.raf.totalTime),
                      !.isRunning = IF done THEN FALSE ELSE @,
                      !.fresh = FALSE,
                      !.queued = (@ - 1) + 1]
         IN  /\ mru' = MRURender(mru, p1)
             /\ obs' = [op |-> "frame", wasRunning |-> mru.isRunning,
                        stepped |-> TRUE, delta |-> deltaTime,
                        first |-> mru.fresh]
             /\ frameStamp' = timestamp
    /\ frames' = frames + 1
    /\ UNCHANGED <<activeTool, clock, passes, pendulum, incline, mruv, projectile, psim>>

\* currentPosition, in millimetres
MRUCurrentPosition(p) == p.initialPosition * 1000 + p.velocity * p.elapsedTime

----------------------------------------------------------------------------
(* MRUV *)
MRUVPositions == {0, 5}
MRUVVelocities == {5, -3}
MRUVAccelerations == {20, -10}
MRUVTotalTimes == {10, 1}

MRUVNoFrame == [pending |-> FALSE, totalTime |-> 0]

MRUVMounted ==
    [initialPosition |-> 0, initialVelocity |-> 5, acceleration |-> 20, totalTime |-> 10,
     isRunning |-> FALSE, elapsedTime |-> 0, lastTimeRef |-> Null,
     raf |-> MRUVNoFrame, fresh |-> FALSE, queued |-> 0]

\* cancelAnimationFrame(animationFrameId.current)
MRUVCancelFrame(p) ==
    IF p.raf.pending
    THEN [p EXCEPT !.raf = MRUVNoFrame, !.queued = @ - 1]
    ELSE p

\* animationFrameId.current = requestAnimationFrame(animate)
MRUVRequestFrame(p) ==
    [p EXCEPT !.raf = [pending |-> TRUE, totalTime |-> p.totalTime],
              !.queued = @ + 1]

\* useEffect(..., [isRunning]): when running, lastTimeRef is cleared and a
\* frame is requested for this render's animate; otherwise, and in the
\* cleanup, the requested frame is cancelled
MRUVRunningEffect(p) ==
    IF p.isRunning
    THEN MRUVRequestFrame([MRUVCancelFrame(p) EXCEPT !.lastTimeRef = Null,
                                                   !.fresh = TRUE])
    ELSE [MRUVCancelFrame(p) EXCEPT !.fresh = FALSE]

\* the render that follows the setters of a handler or of animate
MRUVRender(old, new) ==
    IF new.isRunning # old.isRunning THEN MRUVRunningEffect(new) ELSE new

\* handlePlayPause
MRUV_handlePlayPause ==
    /\ activeTool = "MRUV"
    /\ mruv' = MRUVRender(mruv,
                  [mruv EXCEPT
                     !.elapsedTime = IF mruv.elapsedTime >= mruv.totalTime * 1000
                                     THEN 0 ELSE @,
                     !.isRunning = ~mruv.isRunning])
    /\ obs' = Obs("playPause", mruv.isRunning)
    /\ UNCHANGED <<activeTool, clock, frameStamp, passes, frames, pendulum, incline, mru, projectile, psim>>

\* handleReset
MRUV_handleReset ==
    /\ activeTool = "MRUV"
    /\ mruv' = MRUVRender(mruv,
                  [mruv EXCEPT !.isRunning = FALSE, !.elapsedTime = 0,
                               !.initialPosition = 0, !.initialVelocity = 5, !.acceleration = 20, !.totalTime = 10])
    /\ obs' = Obs("reset", mruv.isRunning)
    /\ UNCHANGED <<activeTool, clock, frameStamp, passes, frames, pendulum, incline, mru, projectile, psim>>

\* handleControlChange(setter)
MRUVControlChange(p, new) ==
    MRUVRender(p, [new EXCEPT !.isRunning = FALSE, !.elapsedTime = 0])

MRUV_setInitialPosition ==
    /\ activeTool = "MRUV"
    /\ \E v \in MRUVPositions \ {mruv.initialPosition} :
         mruv' = MRUVControlChange(mruv, [mruv EXCEPT !.initialPosition = v])
    /\ obs' = Obs("setParameter", mruv.isRunning)
    /\ UNCHANGED <<activeTool, clock, frameStamp, passes, frames, pendulum, incline, mru, projectile, psim>>

MRUV_setInitialVelocity ==
    /\ activeTool = "MRUV"
    /\ \E v \in MRUVVelocities \ {mruv.initialVelocity} :
         mruv' = MRUVControlChange(mruv, [mruv EXCEPT !.initialVelocity = v])
    /\ obs' = Obs("setParameter", mruv.isRunning)
    /\ UNCHANGED <<activeTool, clock, frameStamp, passes, frames, pendulum, incline, mru, projectile, psim>>

MRUV_setAcceleration ==
    /\ activeTool = "MRUV"
    /\ \E v \in MRUVAccelerations \ {mruv.acceleration} :
         mruv' = MRUVControlChange(mruv, [mruv EXCEPT !.acceleration = v])
    /\ obs' = Obs("setParameter", mruv.isRunning)
    /\ UNCHANGED <<activeTool, clock, frameStamp, passes, frames, pendulum, incline, mru, projectile, psim>>

MRUV_setTotalTime ==
    /\ activeTool = "MRUV"
    /\ \E v \in MRUVTotalTimes \ {mruv.totalTime} :
         mruv' = MRUVControlChange(mruv, [mruv EXCEPT !.totalTime = v])
    /\ obs' = Obs("setParameter", mruv.isRunning)
    /\ UNCHANGED <<activeTool, clock, frameStamp, passes, frames, pendulum, incline, mru, projectile, psim>>

\* the updater returning newTime in both branches
MRUVNewTime_unclamped(prevTime, deltaTime, totalTime) == prevTime + deltaTime

\* the updater passed to setElapsedTime, for a delta in ms
MRUVNewTime(prevTime, deltaTime, totalTime) ==
    LET newTime == prevTime + deltaTime
    IN  IF newTime >= totalTime * 1000 THEN totalTime * 1000 ELSE newTime

\* animate(timestamp); setIsRunning(false) in the updater causes a render
\* whose effect cancels the frame animate has just requested
MRUV_animate ==
    /\ activeTool = "MRUV"
    /\ mruv.raf.pending
    /\ frames < MaxBurst
    /\ \E timestamp \in FrameStamps :
         LET base == IF mruv.lastTimeRef = Null THEN timestamp
                     ELSE mruv.lastTimeRef
             deltaTime == timestamp - base
             done == mruv.elapsedTime + deltaTime >= mruv.raf.totalTime * 1000
             p1 == [mruv EXCEPT
                      !.lastTimeRef = timestamp,
                      !.elapsedTime = MRUVNewTime(@, deltaTime,
                                                mruv.raf.totalTime),
                      !.isRunning = IF done THEN FALSE ELSE @,
                      !.fresh = FALSE,
                      !.queued = (@ - 1) + 1]
         IN  /\ mruv' = MRUVRender(mruv, p1)
             /\ obs' = [op |-> "frame", wasRunning |-> mruv.isRunning,
                        stepped |-> TRUE, delta |-> deltaTime,
                        first |-> mruv.fresh]
             /\ frameStamp' = timestamp
    /\ frames' = frames + 1
    /\ UNCHANGED <<activeTool, clock, passes, pendulum, incline, mru, projectile, psim>>

\* currentValues without the factor 0.5
MRUVCurrentValues_noHalf(p) ==
    LET t == p.elapsedTime
    IN  [position |-> p.initialPosition * 1000 + p.initialVelocity * t
                        + Quot(p.acceleration * t * t, 10000),
         velocity |-> p.initialVelocity * 1000 + Quot(p.acceleration * t, 10)]

\* currentValues: position in millimetres, velocity in mm/s
MRUVCurrentValues(p) ==
    LET t == p.elapsedTime
    IN  [position |-> p.initialPosition * 1000 + p.initialVelocity * t
                        + Quot(p.acceleration * t * t, 20000),
         velocity |-> p.initialVelocity * 1000 + Quot(p.acceleration * t, 10)]

----------------------------------------------------------------------------
(* ProjectileMotion *)

ProjectileVelocities == {50, 10}
ProjectileAngles == {45, 90, 0}
ProjectileHeights == {0, 10}

\* animationDuration, in ms
AnimationDuration == 3000

\* 100 percent, in thousandths of a percent
FullProgress == 100000

\* steps, the number of intervals the time of flight is cut into
TrajectorySteps == 100

\* v0y and v0x, in cm/s
ProjectileV0y(velocity, angle) == Quot(velocity * Sin1000(angle), 10)
ProjectileV0x(velocity, angle) == Quot(velocity * Cos1000(angle), 10)

\* timeOfFlight, in ms; GRAVITY is in cm/s^2 and the height in metres
ProjectileTimeOfFlightOf(v0y, height) ==
    Quot((v0y + Sqrt(v0y * v0y + 2 * GRAVITY * height * 100)) * 1000, GRAVITY)

ProjectileTimeOfFlight(velocity, angle, height) ==
    ProjectileTimeOfFlightOf(ProjectileV0y(velocity, angle), height)

\* the point computed for the time t in the loop: x and y in cm
TrajectoryPoint(v0x, v0y, height, t) ==
    [time |-> t,
     x |-> Quot(v0x * t, 1000),
     y |-> height * 100 + Quot(v0y * t, 1000)
             - Quot(GRAVITY * Quot(t * t, 1000), 2000)]

\* the points of the loop, before the test y >= 0
TrajectoryLoop(v0x, v0y, height, timeOfFlight) ==
    [n \in 1 .. TrajectorySteps + 1 |->
       TrajectoryPoint(v0x, v0y, height,
                       Quot((n - 1) * timeOfFlight, TrajectorySteps))]

AboveGround(point) == point.y >= 0

\* trajectoryData without the point pushed after the loop
TrajectoryOf_noLanding(v0x, v0y, height, timeOfFlight) ==
    SelectSeq(TrajectoryLoop(v0x, v0y, height, timeOfFlight), AboveGround)

TrajectoryOf(v0x, v0y, height, timeOfFlight) ==
    Append(SelectSeq(TrajectoryLoop(v0x, v0y, height, timeOfFlight),
                     AboveGround),
           [time |-> timeOfFlight, x |-> Quot(v0x * timeOfFlight, 1000),
            y |-> 0])

\* trajectoryData
ProjectileTrajectoryData(velocity, angle, height) ==
    TrajectoryOf(ProjectileV0x(velocity, angle),
                 ProjectileV0y(velocity, angle), height,
                 ProjectileTimeOfFlight(velocity, angle, height))

\* cancelAnimationFrame(animationFrameId.current)
ProjectileCancelFrame(p) ==
    IF p.raf THEN [p EXCEPT !.raf = FALSE, !.queued = @ - 1] ELSE p

\* animationFrameId.current = requestAnimationFrame(step)
ProjectileRequestFrame(p) == [p EXCEPT !.raf = TRUE, !.queued = @ + 1]

ProjectileRunningEffect_forgetsProgress(p) ==
    IF p.isRunning
    THEN ProjectileRequestFrame([ProjectileCancelFrame(p) EXCEPT
                                   !.startTimeRef = Null, !.fresh = TRUE])
    ELSE [ProjectileCancelFrame(p) EXCEPT !.fresh = FALSE]

\* useEffect(..., [isRunning]): when running, startTimeRef is cleared and a
\* frame is requested; otherwise lastProgressRef takes this render's
\* animationProgress and the requested frame is cancelled
ProjectileRunningEffect(p) ==
    IF p.isRunning
    THEN ProjectileRequestFrame([ProjectileCancelFrame(p) EXCEPT
                                   !.startTimeRef = Null, !.fresh = TRUE])
    ELSE [ProjectileCancelFrame(p) EXCEPT
            !.lastProgressRef = p.animationProgress, !.fresh = FALSE]

\* the component after its first render and its effects
ProjectileMounted ==
    ProjectileRunningEffect(
      [velocity |-> 50, angle |-> 45, height |-> 0, isRunning |-> FALSE,
       animationProgress |-> FullProgress, startTimeRef |-> Null,
       lastProgressRef |-> 0, raf |-> FALSE, fresh |-> FALSE,
       queued |-> 0])

\* the render that follows the setters of a handler or of step
ProjectileRender(old, new) ==
    IF new.isRunning # old.isRunning THEN ProjectileRunningEffect(new) ELSE new

\* handlePlayPause
ProjectileMotion_handlePlayPause ==
    /\ activeTool = "PROJECTILE_MOTION"
    /\ LET restart == ~projectile.isRunning
                      /\ projectile.animationProgress >= FullProgress
       IN  projectile' = ProjectileRender(projectile,
             [projectile EXCEPT
                !.animationProgress = IF restart THEN 0 ELSE @,
                !.lastProgressRef = IF restart THEN 0 ELSE @,
                !.isRunning = ~projectile.isRunning])
    /\ obs' = Obs("playPause", projectile.isRunning)
    /\ UNCHANGED <<activeTool, clock, frameStamp, passes, frames, pendulum,
                   incline, mru, mruv, psim>>

\* handleReset
ProjectileMotion_handleReset ==
    /\ activeTool = "PROJECTILE_MOTION"
    /\ projectile' = ProjectileRender(projectile,
          [projectile EXCEPT !.isRunning = FALSE, !.velocity = 50,
                             !.angle = 45, !.height = 0,
                             !.animationProgress = FullProgress,
                             !.lastProgressRef = 0])
    /\ obs' = Obs("reset", projectile.isRunning)
    /\ UNCHANGED <<activeTool, clock, frameStamp, passes, frames, pendulum,
                   incline, mru, mruv, psim>>

\* handleControlChange(setter)
ProjectileControlChange(p, new) ==
    ProjectileRender(p, [new EXCEPT !.isRunning = FALSE,
                                    !.animationProgress = FullProgress,
                                    !.lastProgressRef = 0])

ProjectileMotion_setVelocity ==
    /\ activeTool = "PROJECTILE_MOTION"
    /\ \E v \in ProjectileVelocities \ {projectile.velocity} :
         projectile' = ProjectileControlChange(projectile,
                          [projectile EXCEPT !.velocity = v])
    /\ obs' = Obs("setParameter", projectile.isRunning)
    /\ UNCHANGED <<activeTool, clock, frameStamp, passes, frames, pendulum,
                   incline, mru, mruv, psim>>

ProjectileMotion_setAngle ==
    /\ activeTool = "PROJECTILE_MOTION"
    /\ \E v \in ProjectileAngles \ {projectile.angle} :
         projectile' = ProjectileControlChange(projectile,
                          [projectile EXCEPT !.angle = v])
    /\ obs' = Obs("setParameter", projectile.isRunning)
    /\ UNCHANGED <<activeTool, clock, frameStamp, passes, frames, pendulum,
                   incline, mru, mruv, psim>>

ProjectileMotion_setHeight ==
    /\ activeTool = "PROJECTILE_MOTION"
    /\ \E v \in ProjectileHeights \ {projectile.height} :
         projectile' = ProjectileControlChange(projectile,
                          [projectile EXCEPT !.height = v])
    /\ obs' = Obs("setParameter", projectile.isRunning)
    /\ UNCHANGED <<activeTool, clock, frameStamp, passes, frames, pendulum,
                   incline, mru, mruv, psim>>

\* step(timestamp): the callback has left the queue; it requests itself again
\* only below 100 percent
ProjectileMotion_step ==
    /\ activeTool = "PROJECTILE_MOTION"
    /\ projectile.raf
    /\ frames < MaxBurst
    /\ \E timestamp \in FrameStamps :
         LET startTime == IF projectile.startTimeRef = Null
                             \/ projectile.startTimeRef = 0
                          THEN timestamp ELSE projectile.startTimeRef
             elapsedSinceStart == timestamp - startTime
             progress == Min(Quot(elapsedSinceStart * FullProgress,
                                  AnimationDuration), FullProgress)
             totalProgress == projectile.lastProgressRef + progress
             taken == [projectile EXCEPT !.raf = FALSE, !.queued = @ - 1,
                                         !.fresh = FALSE]
             p1 == IF totalProgress < FullProgress
                   THEN ProjectileRequestFrame(
                          [taken EXCEPT !.startTimeRef = startTime,
                                        !.animationProgress = totalProgress])
                   ELSE [taken EXCEPT !.animationProgress = FullProgress,
                                      !.isRunning = FALSE,
                                      !.lastProgressRef = 0,
                                      !.startTimeRef = Null]
         IN  /\ projectile' = ProjectileRender(projectile, p1)
             /\ obs' = [op |-> "frame", wasRunning |-> projectile.isRunning,
                        stepped |-> TRUE,
                        delta |-> elapsedSinceStart,
                        first |-> projectile.fresh]
             /\ frameStamp' = timestamp
    /\ frames' = frames + 1
    /\ UNCHANGED <<activeTool, clock, passes, pendulum, incline, mru, mruv,
                   psim>>

----------------------------------------------------------------------------
(* ParticleSimulator *)

\* the loop bound of resetSimulation
PopulationSize == 50

\* canvas.width and canvas.height, set from the parent element on mount
CanvasWidth == 30
CanvasHeight == 20

\* internal states of the generator behind Math.random at a reset
Seeds == 0 .. 2

\* Math.random: the generator's next internal state; the value returned is
\* state / 1009, in [0, 1)
RandomNext(x) == (x * 31 + 7) % 1009

\* one iteration of the loop of resetSimulation, drawing charge, x, y, vx, vy
\* in this order; positions in thousandths of a pixel, velocities in
\* thousandths of a pixel per tick, mass in tenths
NewParticle(x0) ==
    LET r1 == RandomNext(x0)
        r2 == RandomNext(r1)
        r3 == RandomNext(r2)
        r4 == RandomNext(r3)
        r5 == RandomNext(r4)
        charge == ((r1 * 3) \div 1009) - 1
    IN  [x |-> Quot(r2 * CanvasWidth * 1000, 1009),
         y |-> Quot(r3 * CanvasHeight * 1000, 1009),
         vx |-> Quot((2 * r4 - 1009) * 1000, 1009),
         vy |-> Quot((2 * r5 - 1009) * 1000, 1009),
         radius |-> IF charge = -1 THEN 2 ELSE 3,
         mass |-> CASE charge = 1 -> 20 [] charge = -1 -> 10 [] OTHER -> 21,
         charge |-> charge,
         color |-> CASE charge = 1 -> "#38bdf8" [] charge = -1 -> "#f43f5e"
                     [] OTHER -> "#a1a1aa",
         rnd |-> r5]

RECURSIVE NewParticles(_, _)
NewParticles(x0, n) ==
    IF n = 0 THEN <<>>
    ELSE LET p == NewParticle(x0)
         IN  <<[f \in DOMAIN p \ {"rnd"} |-> p[f]]>> \o NewParticles(p.rnd, n - 1)

\* integrated and nonFinite record what the latest call of gameLoop computed:
\* loopGravity and loopElectrostatics are the values held by the requested
\* gameLoop callback (0 when none is requested);
\* every body's x, y, vx, vy as they were before the wall collisions were
\* handled, and whether a division had a zero divisor; ticks counts the calls
\* of gameLoop since the component was mounted
PsimUnmounted ==
    [particles |-> <<>>, isRunning |-> FALSE, gravity |-> 10,
     electrostatics |-> 10, raf |-> FALSE, integrated |-> <<>>,
     nonFinite |-> FALSE, ticks |-> 0, queued |-> 0, loopGravity |-> 0,
     loopElectrostatics |-> 0]

\* cancelAnimationFrame(animationFrameId.current)
PsimCancelFrame(p) ==
    IF p.raf
    THEN [p EXCEPT !.raf = FALSE, !.queued = @ - 1, !.loopGravity = 0,
                   !.loopElectrostatics = 0]
    ELSE p

\* a request of the gameLoop of the first render
PsimRequestFrame_firstRender(p) ==
    [p EXCEPT !.raf = TRUE, !.queued = @ + 1, !.loopGravity = 10,
              !.loopElectrostatics = 10]

\* animationFrameId.current = requestAnimationFrame(gameLoop), gameLoop being
\* the callback of the render p, which holds that render's gravity and
\* electrostatics
PsimRequestFrame(p) ==
    [p EXCEPT !.raf = TRUE, !.queued = @ + 1, !.loopGravity = p.gravity,
              !.loopElectrostatics = p.electrostatics]

\* useEffect(..., [isRunning, gameLoop])
PsimRunningEffect(p) ==
    IF p.isRunning THEN PsimRequestFrame(PsimCancelFrame(p))
    ELSE PsimCancelFrame(p)

\* newParticles at the end of the loop, for each state of the generator
Populations == [seed \in Seeds |-> NewParticles(seed, PopulationSize)]

\* resetSimulation, the generator being in state seed
PsimResetSimulation(p, seed) ==
    PsimRunningEffect([p EXCEPT !.isRunning = FALSE,
                                !.particles = Populations[seed],
                                !.integrated = <<>>,
                                !.nonFinite = FALSE])

ParticleSimulator_resetSimulation ==
    /\ activeTool = "PARTICLE_SIMULATOR"
    /\ \E seed \in Seeds : psim' = PsimResetSimulation(psim, seed)
    /\ obs' = Obs("reset", psim.isRunning)
    /\ UNCHANGED <<activeTool, clock, frameStamp, passes, frames, pendulum,
                   incline, mru, mruv, projectile>>

\* the Iniciar/Pausar button: setIsRunning(!isRunning)
ParticleSimulator_playPause ==
    /\ activeTool = "PARTICLE_SIMULATOR"
    /\ psim' = PsimRunningEffect([psim EXCEPT !.isRunning = ~psim.isRunning])
    /\ obs' = Obs("playPause", psim.isRunning)
    /\ UNCHANGED <<activeTool, clock, frameStamp, passes, frames, pendulum,
                   incline, mru, mruv, projectile>>

\* the sliders: setGravity and setElectrostatics give gameLoop a new identity,
\* so the effect cancels the requested frame and, when running, requests one
\* for the new gameLoop
PsimGravities == {10, 0}
PsimElectrostatics == {10, 50}

ParticleSimulator_setGravity ==
    /\ activeTool = "PARTICLE_SIMULATOR"
    /\ \E v \in PsimGravities \ {psim.gravity} :
         psim' = PsimRunningEffect([psim EXCEPT !.gravity = v])
    /\ obs' = Obs("setParameter", psim.isRunning)
    /\ UNCHANGED <<activeTool, clock, frameStamp, passes, frames, pendulum,
                   incline, mru, mruv, projectile>>

ParticleSimulator_setElectrostatics ==
    /\ activeTool = "PARTICLE_SIMULATOR"
    /\ \E v \in PsimElectrostatics \ {psim.electrostatics} :
         psim' = PsimRunningEffect([psim EXCEPT !.electrostatics = v])
    /\ obs' = Obs("setParameter", psim.isRunning)
    /\ UNCHANGED <<activeTool, clock, frameStamp, passes, frames, pendulum,
                   incline, mru, mruv, projectile>>

\* G and k; G in tenths
G == 5
k == 10

\* the distance below which a pair is skipped, in thousandths of a pixel
MinDist == 2000

\* the guard without which every pair would contribute
PsimInteracts_always(dist) == TRUE

\* dist > 2
PsimInteracts(dist) == dist > MinDist

\* forces whose electrostatic part is added to the attraction
PsimForces_likeAttract(pi, pj, gravity, electrostatics, dx, dy, dist, distSqK) ==
    LET forceGrav == Div(G * gravity * pi.mass * pj.mass * 10, distSqK)
        forceElec == Div(k * electrostatics * pi.charge * pj.charge * 100000,
                         distSqK)
    IN  [fx |-> Div(forceGrav * dx, dist) + Div(forceElec * dx, dist),
         fy |-> Div(forceGrav * dy, dist) + Div(forceElec * dy, dist),
         nonFinite |-> distSqK = 0 \/ dist = 0]

\* the body of the guard of the inner loop: the two forces along dx and dy;
\* forces in thousandths, distSq brought to thousandths of a square pixel
\* before it divides
PsimForces(pi, pj, gravity, electrostatics, dx, dy, dist, distSqK) ==
    LET forceGrav == Div(G * gravity * pi.mass * pj.mass * 10, distSqK)
        forceElec == Div(k * electrostatics * pi.charge * pj.charge * 100000,
                         distSqK)
    IN  [fx |-> Div(forceGrav * dx, dist) - Div(forceElec * dx, dist),
         fy |-> Div(forceGrav * dy, dist) - Div(forceElec * dy, dist),
         nonFinite |-> distSqK = 0 \/ dist = 0]

PsimGuarded(pi, pj, gravity, electrostatics, dx, dy, dist, distSqK) ==
    IF PsimInteracts(dist)
    THEN PsimForces(pi, pj, gravity, electrostatics, dx, dy, dist, distSqK)
    ELSE [fx |-> 0, fy |-> 0, nonFinite |-> FALSE]

PsimSeparated(pi, pj, gravity, electrostatics, dx, dy, distSq) ==
    PsimGuarded(pi, pj, gravity, electrostatics, dx, dy, Sqrt(distSq),
                distSq \div 1000)

\* what body j adds to fx and fy of body i in the inner loop
PsimPairForce(pi, pj, gravity, electrostatics) ==
    LET dx == pj.x - pi.x
        dy == pj.y - pi.y
    IN  PsimSeparated(pi, pj, gravity, electrostatics, dx, dy,
                      dx * dx + dy * dy)

PsimAddForces(f1, f2) ==
    [fx |-> f1.fx + f2.fx, fy |-> f1.fy + f2.fy,
     nonFinite |-> f1.nonFinite \/ f2.nonFinite]

\* the inner loop over j, for j from lo to hi; the sum is split in halves to
\* keep the evaluation shallow
RECURSIVE PsimNetForce(_, _, _, _, _, _)
PsimNetForce(ps, i, lo, hi, gravity, electrostatics) ==
    IF lo > hi THEN [fx |-> 0, fy |-> 0, nonFinite |-> FALSE]
    ELSE IF lo = hi
    THEN IF i = lo THEN [fx |-> 0, fy |-> 0, nonFinite |-> FALSE]
         ELSE PsimPairForce(ps[i], ps[lo], gravity, electrostatics)
    ELSE PsimAddForces(
           PsimNetForce(ps, i, lo, (lo + hi) \div 2, gravity, electrostatics),
           PsimNetForce(ps, i, (lo + hi) \div 2 + 1, hi, gravity,
                        electrostatics))

\* body i after its velocity and position were advanced
PsimIntegrate(p, f) ==
    LET ax == Div(f.fx * 10, p.mass)
        ay == Div(f.fy * 10, p.mass)
    IN  [p EXCEPT !.vx = p.vx + ax, !.vy = p.vy + ay,
                  !.x = p.x + p.vx + ax, !.y = p.y + p.vy + ay]

\* the wall collisions that reverse the velocity on neither axis
PsimWalls_noBounce(p) ==
    [p EXCEPT !.x = IF p.x < 0 THEN 0 ELSE Min(CanvasWidth * 1000, p.x),
              !.y = IF p.y < 0 THEN 0 ELSE Min(CanvasHeight * 1000, p.y)]

\* the wall collisions that leave the position where it is
PsimWalls_unclamped(p) ==
    [p EXCEPT !.vx = IF p.x < 0 \/ p.x > CanvasWidth * 1000
                     THEN Quot(p.vx * (-8), 10) ELSE p.vx,
              !.vy = IF p.y < 0 \/ p.y > CanvasHeight * 1000
                     THEN Quot(p.vy * (-8), 10) ELSE p.vy]

\* Wall collisions
PsimWalls(p) ==
    [p EXCEPT !.vx = IF p.x < 0 \/ p.x > CanvasWidth * 1000
                     THEN Quot(p.vx * (-8), 10) ELSE p.vx,
              !.vy = IF p.y < 0 \/ p.y > CanvasHeight * 1000
                     THEN Quot(p.vy * (-8), 10) ELSE p.vy,
              !.x = IF p.x < 0 THEN 0 ELSE Min(CanvasWidth * 1000, p.x),
              !.y = IF p.y < 0 THEN 0 ELSE Min(CanvasHeight * 1000, p.y)]

RECURSIVE PsimLoop(_, _, _, _, _)
\* the end of one iteration of the outer loop: the body is put back in the
\* array after the wall collisions
PsimPlace(acc, i, moved, nonFinite) ==
    [particles |-> [acc.particles EXCEPT ![i] = PsimWalls(moved)],
     integrated |-> Append(acc.integrated,
                           [x |-> moved.x, y |-> moved.y,
                            vx |-> moved.vx, vy |-> moved.vy]),
     nonFinite |-> acc.nonFinite \/ nonFinite]

PsimAccelerate(acc, i, f) ==
    PsimPlace(acc, i, PsimIntegrate(acc.particles[i], f),
              f.nonFinite \/ acc.particles[i].mass = 0)

\* one iteration of the outer loop: body i is advanced in place, so the
\* bodies after it see its new position
PsimAdvance(acc, i, gravity, electrostatics) ==
    PsimAccelerate(acc, i,
                   PsimNetForce(acc.particles, i, 1, Len(acc.particles),
                                gravity, electrostatics))

PsimSecondHalf(half, lo, hi, gravity, electrostatics) ==
    IF Len(half.particles) = 0 THEN half
    ELSE PsimLoop(half, lo, hi, gravity, electrostatics)

\* the outer loop over i, for i from lo to hi in this order
PsimLoop(acc, lo, hi, gravity, electrostatics) ==
    IF lo > hi THEN acc
    ELSE IF lo = hi THEN PsimAdvance(acc, lo, gravity, electrostatics)
    ELSE PsimSecondHalf(
           PsimLoop(acc, lo, (lo + hi) \div 2, gravity, electrostatics),
           (lo + hi) \div 2 + 1, hi, gravity, electrostatics)

\* a tick that loses the last body
PsimUpdater_dropsLast(prevParticles, gravity, electrostatics) ==
    LET acc == PsimLoop([particles |-> prevParticles, integrated |-> <<>>,
                         nonFinite |-> FALSE], 1, Len(prevParticles),
                        gravity, electrostatics)
    IN  IF Len(prevParticles) = 0 THEN acc
        ELSE [acc EXCEPT !.particles = SubSeq(@, 1, Len(@) - 1)]

\* the updater passed to setParticles
PsimUpdater(prevParticles, gravity, electrostatics) ==
    PsimLoop([particles |-> prevParticles, integrated |-> <<>>,
              nonFinite |-> FALSE], 1, Len(prevParticles), gravity,
             electrostatics)

\* the component after setParticles took what the updater returned
PsimTicked(p, new) ==
    [p EXCEPT !.particles = new.particles, !.integrated = new.integrated,
              !.nonFinite = new.nonFinite, !.ticks = @ + 1,
              !.queued = (@ - 1) + 1]

\* gameLoop: the callback has left the queue, the population is advanced by
\* one tick and the next frame is requested
ParticleSimulator_gameLoop ==
    /\ activeTool = "PARTICLE_SIMULATOR"
    /\ psim.raf
    /\ frames < MaxBurst
    /\ psim.ticks < MaxTicks
    /\ psim' = PsimTicked(psim, PsimUpdater(psim.particles, psim.loopGravity,
                                            psim.loopElectrostatics))
    /\ obs' = [op |-> "tick", wasRunning |-> psim.isRunning,
               stepped |-> TRUE, delta |-> 0, first |-> FALSE]
    /\ \E timestamp \in FrameStamps : frameStamp' = timestamp
    /\ frames' = frames + 1
    /\ UNCHANGED <<activeTool, clock, passes, pendulum, incline, mru, mruv,
                   projectile>>

----------------------------------------------------------------------------
(* App and environment *)

\* NavItem onClick: setActiveTool(tool); the mounted component is unmounted
\* (the cleanup of its effect cancels its frame) and the selected one is
\* mounted afresh
App_setActiveTool ==
    /\ \E tool \in LabTool \ {activeTool} :
         /\ activeTool' = tool
         /\ IF tool = "PARTICLE_SIMULATOR"
            THEN \E seed \in Seeds :
                    psim' = PsimResetSimulation(PsimUnmounted, seed)
            ELSE psim' = [PsimUnmounted EXCEPT
                            !.queued = PsimCancelFrame(psim).queued]
    /\ pendulum' = [PendulumMounted EXCEPT
                      !.queued = PendulumCancelFrame(pendulum).queued]
    /\ incline' = [InclineMounted EXCEPT
                     !.queued = InclineCancelFrame(incline).queued]
    /\ mru' = [MRUMounted EXCEPT !.queued = MRUCancelFrame(mru).queued]
    /\ mruv' = [MRUVMounted EXCEPT !.queued = MRUVCancelFrame(mruv).queued]
    /\ projectile' = [ProjectileMounted EXCEPT
                        !.queued = ProjectileCancelFrame(projectile).queued]
    /\ obs' = Obs("mount", FALSE)
    /\ UNCHANGED <<clock, frameStamp, passes, frames>>

\* time passes
Pass ==
    /\ passes < MaxPasses
    /\ \E g \in Gaps : clock' = clock + g
    /\ passes' = passes + 1
    /\ frames' = 0
    /\ obs' = Obs("pass", FALSE)
    /\ UNCHANGED <<activeTool, frameStamp, pendulum, incline, mru,
                   mruv, projectile, psim>>

Init ==
    /\ activeTool = "PROJECTILE_MOTION"
    /\ clock = 1000
    /\ frameStamp = 0
    /\ passes = 0
    /\ frames = 0
    /\ pendulum = PendulumMounted
    /\ incline = InclineMounted
    /\ mru = MRUMounted
    /\ mruv = MRUVMounted
    /\ projectile = ProjectileMounted
    /\ psim = PsimUnmounted
    /\ obs = Obs("mount", FALSE)

Next ==
    \/ App_setActiveTool
    \/ Pass
    \/ SimplePendulum_playPause
    \/ SimplePendulum_setLength
    \/ SimplePendulum_setMass
    \/ SimplePendulum_setInitialAngle
    \/ SimplePendulum_setGravity
    \/ SimplePendulum_handleReset
    \/ SimplePendulum_animate
    \/ InclinedPlane_playPause
    \/ InclinedPlane_resetState
    \/ InclinedPlane_setAngle
    \/ InclinedPlane_setMass
    \/ InclinedPlane_setFriction
    \/ InclinedPlane_animate
    \/ MRU_handlePlayPause
    \/ MRU_handleReset
    \/ MRU_setInitialPosition
    \/ MRU_setVelocity
    \/ MRU_setTotalTime
    \/ MRU_animate
    \/ MRUV_handlePlayPause
    \/ MRUV_handleReset
    \/ MRUV_setInitialPosition
    \/ MRUV_setInitialVelocity
    \/ MRUV_setAcceleration
    \/ MRUV_setTotalTime
    \/ MRUV_animate
    \/ ProjectileMotion_handlePlayPause
    \/ ProjectileMotion_handleReset
    \/ ProjectileMotion_setVelocity
    \/ ProjectileMotion_setAngle
    \/ ProjectileMotion_setHeight
    \/ ProjectileMotion_step
    \/ ParticleSimulator_resetSimulation
    \/ ParticleSimulator_playPause
    \/ ParticleSimulator_setGravity
    \/ ParticleSimulator_setElectrostatics
    \/ ParticleSimulator_gameLoop

Spec == Init /\ [][Next]_vars

----------------------------------------------------------------------------
(* gameLoop applied to a population of two bodies *)

\* the bodies the two-body claims are about: at rest, of either mass and any
\* charge, the first at one of three places and the second at an offset
PairMasses == {10, 20}
PairCharges == {-1, 0, 1}
PairPositions == {<<500, 10000>>, <<15000, 10000>>, <<27000, 10000>>}
PairOffsets == {<<0, 0>>, <<2000, 0>>, <<2500, 0>>, <<0, 2500>>,
                <<3000, 4000>>}

PairBody(pos, mass, charge) ==
    [x |-> pos[1], y |-> pos[2], vx |-> 0, vy |-> 0,
     radius |-> IF charge = -1 THEN 2 ELSE 3, mass |-> mass,
     charge |-> charge,
     color |-> CASE charge = 1 -> "#38bdf8" [] charge = -1 -> "#f43f5e"
                 [] OTHER -> "#a1a1aa"]

PairInit ==
    /\ activeTool = "PARTICLE_SIMULATOR"
    /\ clock = 1000
    /\ frameStamp \in {0, clock}
    /\ passes = 0
    /\ frames = 0
    /\ pendulum = PendulumMounted
    /\ incline = InclineMounted
    /\ mru = MRUMounted
    /\ mruv = MRUVMounted
    /\ projectile = ProjectileMounted
    /\ \E pos \in PairPositions, off \in PairOffsets,
          m1 \in PairMasses, m2 \in PairMasses,
          q1 \in PairCharges, q2 \in PairCharges,
          g \in PsimGravities, e \in PsimElectrostatics :
         psim = [PsimUnmounted EXCEPT
                   !.particles =
                      <<PairBody(pos, m1, q1),
                        PairBody(<<pos[1] + off[1], pos[2] + off[2]>>,
                                 m2, q2)>>,
                   !.gravity = g, !.electrostatics = e,
                   !.isRunning = TRUE, !.raf = TRUE, !.queued = 1,
                   !.loopGravity = g, !.loopElectrostatics = e]
    /\ obs = Obs("mount", FALSE)

PairNext ==
    \/ ParticleSimulator_gameLoop
    \/ Pass

PairSpec == PairInit /\ [][PairNext]_vars

----------------------------------------------------------------------------
(* A run left alone: after the start command only frames and time *)

MaxClock == 13000

LiveTools == {"MRU", "MRUV", "PROJECTILE_MOTION", "INCLINED_PLANE"}

\* the running flag, the requested frame and the frame queue of the mounted
\* demo
DemoRunning ==
    CASE activeTool = "SIMPLE_PENDULUM" -> pendulum.isRunning
      [] activeTool = "INCLINED_PLANE" -> incline.isRunning
      [] activeTool = "MRU" -> mru.isRunning
      [] activeTool = "MRUV" -> mruv.isRunning
      [] activeTool = "PROJECTILE_MOTION" -> projectile.isRunning
      [] activeTool = "PARTICLE_SIMULATOR" -> psim.isRunning
      [] OTHER -> FALSE

DemoPending ==
    CASE activeTool = "SIMPLE_PENDULUM" -> pendulum.raf.pending
      [] activeTool = "INCLINED_PLANE" -> incline.raf.pending
      [] activeTool = "MRU" -> mru.raf.pending
      [] activeTool = "MRUV" -> mruv.raf.pending
      [] activeTool = "PROJECTILE_MOTION" -> projectile.raf
      [] activeTool = "PARTICLE_SIMULATOR" -> psim.raf
      [] OTHER -> FALSE

\* the user sets parameters and presses start, and then leaves the demo alone
LiveCommand ==
    /\ obs.op \in {"mount", "setParameter"}
    /\ \/ InclinedPlane_setAngle
       \/ InclinedPlane_setFriction
       \/ MRU_setTotalTime
       \/ MRUV_setAcceleration
       \/ MRUV_setTotalTime
       \/ ProjectileMotion_setVelocity
       \/ ProjectileMotion_setHeight
       \/ InclinedPlane_playPause
       \/ MRU_handlePlayPause
       \/ MRUV_handlePlayPause
       \/ ProjectileMotion_handlePlayPause

\* the browser delivers the requested frame
LiveFrame ==
    \/ InclinedPlane_animate
    \/ MRU_animate
    \/ MRUV_animate
    \/ ProjectileMotion_step

\* time passes between two frames of a running demo: the requested frame of
\* the current instant has been delivered
LivePass ==
    /\ DemoRunning
    /\ frames > 0 \/ ~DemoPending
    /\ clock < MaxClock
    /\ \E g \in Gaps : clock' = clock + g
    /\ frames' = 0
    /\ obs' = Obs("pass", TRUE)
    /\ UNCHANGED <<activeTool, frameStamp, passes, pendulum, incline, mru,
                   mruv, projectile, psim>>

LiveInit ==
    /\ activeTool \in LiveTools
    /\ clock = 1000
    /\ frameStamp = 0
    /\ passes = 0
    /\ frames = 0
    /\ pendulum = PendulumMounted
    /\ incline = InclineMounted
    /\ mru = MRUMounted
    /\ mruv = MRUVMounted
    /\ projectile = ProjectileMounted
    /\ psim = PsimUnmounted
    /\ obs = Obs("mount", FALSE)

LiveNext ==
    \/ LiveCommand
    \/ LiveFrame
    \/ LivePass

\* a requested frame is delivered and time goes on
LiveSpec ==
    /\ LiveInit
    /\ [][LiveNext]_vars
    /\ WF_vars(LiveFrame)
    /\ WF_vars(LivePass)

----------------------------------------------------------------------------
(* Properties *)

TimestampDemos == {"SIMPLE_PENDULUM", "INCLINED_PLANE", "MRU", "MRUV"}

\* the longest gap between two frames that the exploration contains
LongestGap == MaxPasses * 1000

\* C1: pendulum: after the reset command, issued in any state, the demo is not
\* running and its simulation state is angle = initial angle in radians,
\* angularVelocity = 0, time = 0, lastUpdateTime = 0.
C1_PendulumResetReinitialises ==
    (activeTool = "SIMPLE_PENDULUM" /\ obs.op = "reset")
      => /\ ~pendulum.isRunning
         /\ pendulum.sim = [angle |-> DegToRad(pendulum.initialAngle),
                            angularVelocity |-> 0, time |-> 0,
                            lastUpdateTime |-> 0]

\* C2: MRU, MRUV, incline and projectile: after the reset command the demo is
\* not running and its simulation state is the initial one (elapsedTime = 0;
\* position = velocity = time = 0; playback idle with carried-over progress 0).
C2_ResetReinitialises ==
    obs.op = "reset" =>
      /\ activeTool = "MRU" => ~mru.isRunning /\ mru.elapsedTime = 0
      /\ activeTool = "MRUV" => ~mruv.isRunning /\ mruv.elapsedTime = 0
      /\ activeTool = "INCLINED_PLANE" =>
           /\ ~incline.isRunning
           /\ incline.sim.position = 0
           /\ incline.sim.velocity = 0
           /\ incline.sim.time = 0
      /\ activeTool = "PROJECTILE_MOTION" =>
           /\ ~projectile.isRunning
           /\ projectile.animationProgress = FullProgress
           /\ projectile.lastProgressRef = 0

\* C3: in every single-body demo a parameter change leaves the demo not
\* running, with no frame requested and the simulation state reinitialised
\* from the new parameter values; and a requested frame callback never holds
\* parameter values other than the current ones.
C3_ParameterChangeReinitialises ==
    /\ obs.op = "setParameter" =>
         /\ activeTool = "SIMPLE_PENDULUM" =>
              /\ ~pendulum.isRunning /\ ~pendulum.raf.pending
              /\ pendulum.sim.angle = DegToRad(pendulum.initialAngle)
              /\ pendulum.sim.angularVelocity = 0
              /\ pendulum.sim.time = 0
         /\ activeTool = "INCLINED_PLANE" =>
              /\ ~incline.isRunning /\ ~incline.raf.pending
              /\ incline.sim.position = 0
              /\ incline.sim.velocity = 0
              /\ incline.sim.time = 0
         /\ activeTool = "MRU" =>
              ~mru.isRunning /\ ~mru.raf.pending /\ mru.elapsedTime = 0
         /\ activeTool = "MRUV" =>
              ~mruv.isRunning /\ ~mruv.raf.pending /\ mruv.elapsedTime = 0
         /\ activeTool = "PROJECTILE_MOTION" =>
              /\ ~projectile.isRunning /\ ~projectile.raf
              /\ projectile.animationProgress = FullProgress
    /\ pendulum.raf.pending =>
         /\ pendulum.raf.gravity = pendulum.gravity
         /\ pendulum.raf.length = pendulum.length
    /\ incline.raf.pending =>
         incline.raf.acceleration
           = InclineAcceleration(incline.angle, incline.mass, incline.friction)
    /\ mru.raf.pending => mru.raf.totalTime = mru.totalTime
    /\ mruv.raf.pending => mruv.raf.totalTime = mruv.totalTime

\* C3 witness: a parameter of the running pendulum has just been changed
C3_Witness ==
    /\ activeTool = "SIMPLE_PENDULUM"
    /\ obs.op = "setParameter"
    /\ obs.wasRunning
    /\ pendulum.gravity # 981

\* C4: in the demos that use frame timestamps the first frame callback after
\* a start applies a time delta of exactly 0 and only records the baseline.
C4_FirstFrameAppliesZero ==
    (activeTool \in TimestampDemos /\ obs.op = "frame" /\ obs.first)
      => (~obs.stepped \/ obs.delta = 0)

\* C5: the time delta applied in one step stays below a fixed bound however
\* long the gap between two frames is.
C5_DeltaClamped ==
    (activeTool \in TimestampDemos /\ obs.op = "frame" /\ obs.stepped)
      => obs.delta < LongestGap

\* C6: the time delta fed to an integrator is never negative.
C6_DeltaNonNegative ==
    (activeTool \in TimestampDemos /\ obs.op = "frame" /\ obs.stepped)
      => obs.delta >= 0

\* C7: a step whose time delta is 0 leaves every position and every velocity
\* unchanged.
C7_ZeroDeltaStepChangesNothing ==
    [][(obs'.op = "frame" /\ obs'.stepped /\ obs'.delta = 0)
         => /\ pendulum'.sim.angle = pendulum.sim.angle
            /\ pendulum'.sim.angularVelocity = pendulum.sim.angularVelocity
            /\ incline'.sim.position = incline.sim.position
            /\ incline'.sim.velocity = incline.sim.velocity
            /\ mru'.elapsedTime = mru.elapsedTime
            /\ MRUCurrentPosition(mru') = MRUCurrentPosition(mru)
            /\ mruv'.elapsedTime = mruv.elapsedTime
            /\ MRUVCurrentValues(mruv') = MRUVCurrentValues(mruv)]_vars

\* the state of a demo that a reset is about
SimulationState ==
    CASE activeTool = "SIMPLE_PENDULUM" ->
           <<pendulum.isRunning, pendulum.sim.angle,
             pendulum.sim.angularVelocity, pendulum.sim.time>>
      [] activeTool = "INCLINED_PLANE" ->
           <<incline.isRunning, incline.sim.position, incline.sim.velocity,
             incline.sim.time>>
      [] activeTool = "MRU" -> <<mru.isRunning, mru.elapsedTime>>
      [] activeTool = "MRUV" -> <<mruv.isRunning, mruv.elapsedTime>>
      [] activeTool = "PROJECTILE_MOTION" ->
           <<projectile.isRunning, projectile.animationProgress,
             projectile.lastProgressRef>>
      [] activeTool = "PARTICLE_SIMULATOR" -> <<psim.isRunning, psim.particles>>
      [] OTHER -> <<>>

\* C8: a reset that directly follows a reset yields the same simulation state
\* as the first one, in every demo including the particle simulator.
C8_ResetTwiceSameState ==
    [][(obs.op = "reset" /\ obs'.op = "reset")
         => SimulationState' = SimulationState]_vars

\* C9: MRU and MRUV: always 0 <= elapsedTime <= totalTime; and a step that
\* would bring elapsedTime to or beyond totalTime leaves elapsedTime equal to
\* totalTime and the demo not running.
C9_ElapsedTimeWithinTotal ==
    /\ [](/\ 0 <= mru.elapsedTime /\ mru.elapsedTime <= mru.totalTime * 1000
          /\ 0 <= mruv.elapsedTime /\ mruv.elapsedTime <= mruv.totalTime * 1000)
    /\ [][/\ (activeTool = "MRU" /\ obs'.op = "frame"
               /\ mru.elapsedTime + obs'.delta >= mru.totalTime * 1000)
             => (mru'.elapsedTime = mru'.totalTime * 1000 /\ ~mru'.isRunning)
          /\ (activeTool = "MRUV" /\ obs'.op = "frame"
               /\ mruv.elapsedTime + obs'.delta >= mruv.totalTime * 1000)
             => (mruv'.elapsedTime = mruv'.totalTime * 1000
                 /\ ~mruv'.isRunning)]_vars

\* C9 witness: a frame callback has just completed an MRUV run
C9_Witness ==
    /\ activeTool = "MRUV"
    /\ obs.op = "frame"
    /\ obs.delta > 0
    /\ mruv.elapsedTime = mruv.totalTime * 1000
    /\ ~mruv.isRunning

\* C10: incline: after every step the position is at most the track length;
\* and a step that would bring the position to or beyond the track length
\* leaves it equal to the track length and the demo not running.
C10_PositionWithinTrack ==
    /\ [](incline.sim.position <= MaxPosition)
    /\ [][(activeTool = "INCLINED_PLANE" /\ obs'.op = "frame" /\ obs'.stepped
             /\ incline.sim.position
                  + Quot((incline.sim.velocity
                            + Quot(incline.raf.acceleration * obs'.delta, 10000))
                         * obs'.delta, 1000) >= MaxPosition)
            => (incline'.sim.position = MaxPosition /\ ~incline'.isRunning)]_vars

\* C10 witness: a frame callback has just brought the block to the end
C10_Witness ==
    /\ activeTool = "INCLINED_PLANE"
    /\ obs.op = "frame"
    /\ obs.wasRunning
    /\ incline.sim.velocity > 0
    /\ incline.sim.position = MaxPosition
    /\ ~incline.isRunning

\* whether an integrated coordinate left the domain [0, size], in thousandths
Outside(c, size) == c < 0 \/ c > size * 1000

\* C11: particle simulator: every body's position lies in [0, width] x
\* [0, height], after the reset and after every tick.
C11_BodiesInsideDomain ==
    activeTool = "PARTICLE_SIMULATOR" =>
      \A i \in 1 .. Len(psim.particles) :
         /\ 0 <= psim.particles[i].x
         /\ psim.particles[i].x <= CanvasWidth * 1000
         /\ 0 <= psim.particles[i].y
         /\ psim.particles[i].y <= CanvasHeight * 1000

\* C11 witness: a tick has just brought a body back from beyond the top or
\* the bottom of the domain
C11_Witness ==
    /\ activeTool = "PARTICLE_SIMULATOR"
    /\ obs.op = "tick"
    /\ \E i \in 1 .. Len(psim.particles) :
         /\ Outside(psim.integrated[i].y, CanvasHeight)
         /\ psim.particles[i].y \in {0, CanvasHeight * 1000}

\* C12: particle simulator: in a tick the velocity of a body on an axis is
\* multiplied by -0.8 exactly when its integrated position on that axis is
\* below 0 or above the size of the domain, and is otherwise left as
\* integrated; what happens on one axis does not depend on the other.
C12_BounceExactlyWhenOutside ==
    (activeTool = "PARTICLE_SIMULATOR" /\ obs.op = "tick") =>
      \A i \in 1 .. Len(psim.particles) :
         /\ psim.particles[i].vx
              = IF Outside(psim.integrated[i].x, CanvasWidth)
                THEN Quot(psim.integrated[i].vx * (-8), 10)
                ELSE psim.integrated[i].vx
         /\ psim.particles[i].vy
              = IF Outside(psim.integrated[i].y, CanvasHeight)
                THEN Quot(psim.integrated[i].vy * (-8), 10)
                ELSE psim.integrated[i].vy

\* C12 witness: a tick has just reversed a body's velocity on the x axis and
\* left its velocity on the y axis as integrated
C12_Witness ==
    /\ activeTool = "PARTICLE_SIMULATOR"
    /\ obs.op = "tick"
    /\ \E i \in 1 .. Len(psim.particles) :
         /\ Outside(psim.integrated[i].x, CanvasWidth)
         /\ ~Outside(psim.integrated[i].y, CanvasHeight)
         /\ psim.integrated[i].vx # 0
         /\ psim.integrated[i].vy # 0
         /\ psim.particles[i].vx * psim.integrated[i].vx < 0
         /\ psim.particles[i].vy = psim.integrated[i].vy

\* the fields of a body that make its identity
Identity(p) == <<p.mass, p.charge, p.radius, p.color>>

\* C13: particle simulator: a reset creates exactly 50 bodies, each with a
\* charge of -1, 0 or 1 and a positive mass; a tick keeps the number of
\* bodies, their order and the mass, charge, radius and colour of each; and
\* nothing but a reset (the one at mount included) and a tick changes the
\* population.
C13_PopulationFixed ==
    /\ []((activeTool = "PARTICLE_SIMULATOR" /\ obs.op \in {"reset", "mount"})
            => /\ Len(psim.particles) = PopulationSize
               /\ \A i \in 1 .. Len(psim.particles) :
                    /\ psim.particles[i].charge \in {-1, 0, 1}
                    /\ psim.particles[i].mass > 0)
    /\ [][/\ obs'.op = "tick" =>
               /\ Len(psim'.particles) = Len(psim.particles)
               /\ \A i \in 1 .. Len(psim.particles) :
                    Identity(psim'.particles[i]) = Identity(psim.particles[i])
          /\ psim'.particles # psim.particles
               => obs'.op \in {"tick", "reset", "mount"}]_vars

\* C13 witness: a tick has just moved the 50 bodies
C13_Witness ==
    /\ activeTool = "PARTICLE_SIMULATOR"
    /\ obs.op = "tick"
    /\ Len(psim.particles) = PopulationSize
    /\ Len(psim.integrated) = PopulationSize
    /\ \E i \in 1 .. PopulationSize : psim.particles[i].vx # 0

\* the square of the distance between two positions
DistSq(p, q) == (q.x - p.x) * (q.x - p.x) + (q.y - p.y) * (q.y - p.y)

\* the component of the velocity change from `before` to `after` along the
\* line from `before` to the position `target`
Along(before, after, target) ==
    (after.vx - before.vx) * (target.x - before.x)
      + (after.vy - before.vy) * (target.y - before.y)

\* two bodies of equal mass, at rest, charged, further apart than the minimum
\* distance, with no gravity and some electrostatic force
TwoChargesAtRest ==
    /\ Len(psim.particles) = 2
    /\ psim.particles[1].mass = psim.particles[2].mass
    /\ \A i \in 1 .. 2 : /\ psim.particles[i].vx = 0
                         /\ psim.particles[i].vy = 0
                         /\ psim.particles[i].charge # 0
    /\ DistSq(psim.particles[1], psim.particles[2]) > MinDist * MinDist
    /\ psim.gravity = 0
    /\ psim.electrostatics > 0

\* whether a velocity change with component d along the line to the other
\* body has the direction the charges ask for
Directed(d) ==
    IF psim.particles[1].charge # psim.particles[2].charge
    THEN d > 0 ELSE d < 0

\* C14 as stated: in one tick of two charges at rest each body's velocity
\* change points toward the other body when the charges are opposite and
\* away from it when they are equal.
C14_VelocityChangeFollowsCharges ==
    [][(obs'.op = "tick" /\ TwoChargesAtRest)
         => /\ Directed(Along(psim.particles[1], psim'.particles[1],
                              psim.particles[2]))
            /\ Directed(Along(psim.particles[2], psim'.particles[2],
                              psim.particles[1]))]_vars

\* whether body i stayed inside the domain when its position was integrated
\* in the tick that leads to the next state
StaysInside(i) ==
    /\ ~Outside(psim'.integrated[i].x, CanvasWidth)
    /\ ~Outside(psim'.integrated[i].y, CanvasHeight)

\* C14 amended: in one tick of two charges at rest, the velocity change of
\* the body updated first points toward the other body when the charges are
\* opposite and away from it when they are equal, provided its integrated
\* position stays inside the domain; the velocity change of the body updated
\* second has that direction relative to the position the first body has
\* after its own update, provided the two are then still further apart than
\* the minimum distance and its own integrated position stays inside the
\* domain.
C14_VelocityChangeFollowsChargesInside ==
    [][(obs'.op = "tick" /\ TwoChargesAtRest)
         => /\ StaysInside(1)
                 => Directed(Along(psim.particles[1], psim'.particles[1],
                                   psim.particles[2]))
            /\ (/\ StaysInside(2)
                /\ DistSq(psim.particles[2], psim'.particles[1])
                     > MinDist * MinDist)
                 => Directed(Along(psim.particles[2], psim'.particles[2],
                                   psim'.particles[1]))]_vars

\* C14 witness: a tick has just drawn two opposite charges of equal mass,
\* both staying inside the domain, toward each other
C14_Witness ==
    /\ obs.op = "tick"
    /\ psim.ticks = 1
    /\ Len(psim.particles) = 2
    /\ psim.particles[1].mass = psim.particles[2].mass
    /\ psim.particles[1].charge * psim.particles[2].charge = -1
    /\ psim.gravity = 0
    /\ psim.electrostatics > 0
    /\ \A i \in 1 .. 2 : /\ ~Outside(psim.integrated[i].x, CanvasWidth)
                         /\ ~Outside(psim.integrated[i].y, CanvasHeight)
    /\ psim.particles[1].vx > 0
    /\ psim.particles[2].vx < 0
    /\ psim.particles[1].x < psim.particles[2].x

\* C15: a pair of bodies no further apart than the minimum distance adds no
\* force to either body in the tick (each body's integrated velocity is its
\* velocity before the tick), and no tick divides by zero, so none produces
\* a position or a velocity that is not finite.
C15_ClosePairContributesNothing ==
    /\ [](~psim.nonFinite)
    /\ [][(/\ obs'.op = "tick"
           /\ Len(psim.particles) = 2
           /\ DistSq(psim.particles[1], psim.particles[2])
                <= MinDist * MinDist)
            => /\ psim'.integrated[1].vx = psim.particles[1].vx
               /\ psim'.integrated[1].vy = psim.particles[1].vy
               /\ DistSq(psim.particles[2], psim'.particles[1])
                    <= MinDist * MinDist
                    => /\ psim'.integrated[2].vx = psim.particles[2].vx
                       /\ psim'.integrated[2].vy = psim.particles[2].vy]_vars

\* C15 witness: a tick has just left alone two charged bodies that are at the
\* same place
C15_Witness ==
    /\ obs.op = "tick"
    /\ Len(psim.particles) = 2
    /\ psim.electrostatics > 0
    /\ psim.gravity > 0
    /\ psim.particles[1].charge # 0
    /\ psim.particles[2].charge # 0
    /\ DistSq(psim.particles[1], psim.particles[2]) = 0
    /\ \A i \in 1 .. 2 : psim.particles[i].vx = 0 /\ psim.particles[i].vy = 0

\* parameter values across the ranges of the three sliders of the incline
InclineRangeAngles == {5, 30, 45, 60}
InclineRangeMasses == {2, 10, 20}
InclineRangeFrictions == {0, 20, 58, 100}

\* g (sin - mu cos), in 1e-4 m/s^2
SlopeAcceleration(angle, friction) ==
    Quot(GRAVITY * (100 * Sin1000(angle) - friction * Cos1000(angle)), 1000)

\* C16: incline: for parameter values across their ranges the acceleration
\* is max(0, g (sin - mu cos)), the same for every mass, never negative and
\* 0 whenever sin <= mu cos; and a step with a time delta >= 0 of a block
\* that is not moving backwards lowers neither its velocity nor its position
\* (with time deltas >= 0 throughout the velocity starts at 0 and is never
\* negative).
C16_AccelerationClampedAtZero ==
    /\ [](\A angle \in InclineRangeAngles, friction \in InclineRangeFrictions,
             mass \in InclineRangeMasses :
            LET a == InclineAcceleration(angle, mass, friction)
                s == SlopeAcceleration(angle, friction)
            IN  /\ a = IF s > 0 THEN s ELSE 0
                /\ a >= 0
                /\ 100 * Sin1000(angle) <= friction * Cos1000(angle) => a = 0
                /\ \A other \in InclineRangeMasses :
                      a = InclineAcceleration(angle, other, friction))
    /\ [](incline.raf.pending =>
            LET s == SlopeAcceleration(incline.angle, incline.friction)
            IN  incline.raf.acceleration = IF s > 0 THEN s ELSE 0)
    /\ [][(/\ activeTool = "INCLINED_PLANE"
           /\ obs'.op = "frame"
           /\ obs'.stepped
           /\ obs'.delta >= 0
           /\ incline.sim.velocity >= 0)
            => /\ incline'.sim.velocity >= incline.sim.velocity
               /\ incline'.sim.position >= incline.sim.position]_vars

\* C16 witness: a step of one second has just left at rest a block that the
\* friction holds (30 degrees, mu = 1)
C16_Witness ==
    /\ activeTool = "INCLINED_PLANE"
    /\ obs.op = "frame"
    /\ obs.stepped
    /\ obs.delta >= 1000
    /\ incline.angle = 30
    /\ incline.friction = 100
    /\ incline.isRunning
    /\ incline.sim.velocity = 0
    /\ incline.sim.position = 0
    /\ incline.sim.time > 0

\* what C17 asks of a trajectory whose time of flight is timeOfFlight
WellFormedTrajectory(data, timeOfFlight) ==
    /\ Len(data) >= 1
    /\ \A n \in 1 .. Len(data) - 1 : data[n].time <= data[n + 1].time
    /\ \A n \in 1 .. Len(data) : data[n].y >= 0
    /\ data[Len(data)].y = 0
    /\ data[Len(data)].time = timeOfFlight
    /\ timeOfFlight >= 0

\* C17: projectile: for the parameter values set, the trajectory is a
\* non-empty sequence of samples in non-decreasing order of time, every
\* sample has a height >= 0, and the last sample has height 0 at the time of
\* flight, which is not negative.
C17_TrajectoryEndsOnGround ==
    activeTool = "PROJECTILE_MOTION" =>
      WellFormedTrajectory(
        ProjectileTrajectoryData(projectile.velocity, projectile.angle,
                                 projectile.height),
        ProjectileTimeOfFlight(projectile.velocity, projectile.angle,
                               projectile.height))

\* C17 witness: the trajectory has been recomputed for a launch from a height
\* and the loop has dropped or kept above the ground its last point
C17_Witness ==
    /\ activeTool = "PROJECTILE_MOTION"
    /\ obs.op = "setParameter"
    /\ projectile.height > 0
    /\ projectile.angle = 45
    /\ LET data == ProjectileTrajectoryData(projectile.velocity,
                                            projectile.angle,
                                            projectile.height)
       IN  /\ Len(data) >= TrajectorySteps
           /\ data[Len(data) - 1].y # 0
           /\ data[Len(data)].y = 0

QueuedFrames ==
    pendulum.queued + incline.queued + mru.queued + mruv.queued
      + projectile.queued + psim.queued

FrameOps == {"frame", "tick"}

\* a stop has just been issued: pause, reset, completion, or a parameter
\* change of a single-body demo
StopIssued ==
    \/ obs.op = "playPause" /\ obs.wasRunning
    \/ obs.op = "reset"
    \/ obs.op \in FrameOps /\ obs.wasRunning /\ ~DemoRunning
    \/ obs.op = "setParameter" /\ activeTool # "PARTICLE_SIMULATOR"

\* C18: in every demo with a running flag at most one frame callback is in
\* the frame queue at any time; once a stop (pause, reset, completion or
\* parameter change) has been issued, and for as long as the demo is not
\* running, no frame callback is queued or requested; and no frame callback
\* runs between a stop and the next start.
C18_NoFrameAfterStop ==
    /\ [](/\ QueuedFrames <= 1
          /\ (StopIssued \/ ~DemoRunning)
               => QueuedFrames = 0 /\ ~DemoPending)
    /\ [][(StopIssued \/ ~DemoRunning) => obs'.op \notin FrameOps]_vars

StopOps == {"playPause", "reset", "setParameter"}

\* C19: pendulum: a frame step never changes the running flag, and the
\* mounted pendulum goes from running to not running only by the pause, reset
\* or parameter-change commands.
C19_PendulumFrameNeverStops ==
    [][(activeTool = "SIMPLE_PENDULUM" /\ activeTool' = "SIMPLE_PENDULUM")
         => /\ obs'.op = "frame" => pendulum'.isRunning = pendulum.isRunning
            /\ (pendulum.isRunning /\ ~pendulum'.isRunning)
                 => obs'.op \in StopOps]_vars

\* C19 witness: a frame has integrated the running pendulum, which is still
\* running
C19_Witness ==
    /\ activeTool = "SIMPLE_PENDULUM"
    /\ obs.op = "frame"
    /\ obs.stepped
    /\ obs.delta > 0
    /\ pendulum.isRunning
    /\ pendulum.sim.angularVelocity # 0

\* the simulation time accumulated by the mounted demo, in ms; for the
\* projectile the playback progress
Accumulated ==
    CASE activeTool = "SIMPLE_PENDULUM" -> pendulum.sim.time
      [] activeTool = "INCLINED_PLANE" -> incline.sim.time
      [] activeTool = "MRU" -> mru.elapsedTime
      [] activeTool = "MRUV" -> mruv.elapsedTime
      [] activeTool = "PROJECTILE_MOTION" -> projectile.animationProgress
      [] OTHER -> 0

\* C20: the time that passed while a demo was not running is never added:
\* the first frame callback after a start leaves the accumulated simulation
\* time (for the projectile, the progress) at the value it had at the pause,
\* and every later callback adds at most the gap between its timestamp and
\* the previous callback's, and never subtracts.
C20_ResumeAddsOnlyFrameGaps ==
    [][(obs'.op = "frame" /\ obs'.wasRunning)
         => IF obs'.first
            THEN Accumulated' = Accumulated
            ELSE /\ Accumulated' >= Accumulated
                 /\ activeTool \in TimestampDemos
                      => Accumulated' <= Accumulated + (frameStamp' - frameStamp)]_vars

C22_PendulumStepMapping ==
    [][(activeTool = "SIMPLE_PENDULUM" /\ obs'.op = "frame" /\ obs'.stepped)
         => LET d == obs'.delta
                theta == pendulum.sim.angle
                omega == pendulum.sim.angularVelocity
                restoring == Quot(pendulum.gravity * theta, 10 * pendulum.length)
                omega1 == Quot((omega - Quot(restoring * d, 1000)) * 999, 1000)
            IN  /\ pendulum'.sim.angularVelocity = omega1
                /\ pendulum'.sim.angle = theta + Quot(omega1 * d, 1000)
                /\ pendulum'.sim.time = pendulum.sim.time + d]_vars

\* C22 witness: a step with a positive delta has just been applied to a
\* pendulum that was already moving, and the angle changed
C22_Witness ==
    /\ activeTool = "SIMPLE_PENDULUM"
    /\ obs.op = "frame"
    /\ obs.stepped
    /\ obs.delta > 0
    /\ ~obs.first
    /\ pendulum.sim.angularVelocity # 0
    /\ pendulum.sim.angle # DegToRad(pendulum.initialAngle)
    /\ pendulum.sim.time > obs.delta

\* C23: projectile: the playback progress is always within 0..100 percent and
\* a running playback is below 100; a frame never lowers the progress, never
\* changes the trajectory and leaves the playback stopped when it brings the
\* progress to 100; a pause, and the start that resumes a paused playback,
\* leave the progress as it is.
C23_ProgressMonotoneWithinBounds ==
    /\ [](/\ projectile.animationProgress >= 0
          /\ projectile.animationProgress <= FullProgress
          /\ projectile.isRunning
               => projectile.animationProgress < FullProgress)
    /\ [][(activeTool = "PROJECTILE_MOTION" /\ obs'.op = "frame")
           => /\ projectile'.animationProgress >= projectile.animationProgress
              /\ ProjectileTrajectoryData(projectile'.velocity,
                                          projectile'.angle,
                                          projectile'.height)
                   = ProjectileTrajectoryData(projectile.velocity,
                                              projectile.angle,
                                              projectile.height)
              /\ projectile'.animationProgress = FullProgress
                   => ~projectile'.isRunning]_vars
    /\ [][(/\ activeTool = "PROJECTILE_MOTION"
           /\ obs'.op = "playPause"
           /\ projectile.animationProgress < FullProgress)
           => projectile'.animationProgress = projectile.animationProgress]_vars

\* C23 witness: the first frame after the resume of a playback paused
\* part-way has left the progress at the paused value
C23_Witness ==
    /\ activeTool = "PROJECTILE_MOTION"
    /\ obs.op = "frame"
    /\ obs.first
    /\ projectile.isRunning
    /\ projectile.animationProgress > 0
    /\ projectile.animationProgress < FullProgress
    /\ projectile.animationProgress = projectile.lastProgressRef

\* the run of the mounted demo has ended by itself
Completed ==
    CASE activeTool = "MRU" ->
           ~mru.isRunning /\ mru.elapsedTime = mru.totalTime * 1000
      [] activeTool = "MRUV" ->
           ~mruv.isRunning /\ mruv.elapsedTime = mruv.totalTime * 1000
      [] activeTool = "PROJECTILE_MOTION" ->
           ~projectile.isRunning /\ projectile.animationProgress = FullProgress
      [] activeTool = "INCLINED_PLANE" ->
           ~incline.isRunning /\ incline.sim.position = MaxPosition
      [] OTHER -> FALSE

\* a run that is under way and, on the incline, accelerates
StartedToComplete ==
    /\ DemoRunning
    /\ activeTool = "INCLINED_PLANE"
         => InclineAcceleration(incline.angle, incline.mass,
                                incline.friction) > 0

\* C24: when frames keep being delivered and no command follows the start, a
\* started MRU, MRUV or projectile run, and a started incline run whose
\* acceleration is positive, eventually is Completed: not running, with
\* elapsedTime = totalTime, progress = 100 or position = track length.
C24_StartedRunCompletes == StartedToComplete ~> Completed

\* C24 witness: the frame that ended a run of ten seconds of MRU
C24_Witness ==
    /\ activeTool = "MRU"
    /\ obs.op = "frame"
    /\ obs.wasRunning
    /\ Completed
    /\ mru.totalTime = 10
    /\ clock >= 11000

\* sin(angle) <= friction * cos(angle): friction holds the block
FrictionHolds ==
    Sin1000(incline.angle) * 100 <= incline.friction * Cos1000(incline.angle)

\* C25: incline with sin(angle) <= friction * cos(angle): the block's
\* position and velocity are exactly 0 in every state, whatever frames were
\* delivered, and the running block stops being running only by a pause, a
\* reset or a parameter change, never by a frame.
C25_HeldBlockStaysAtRest ==
    /\ []((activeTool = "INCLINED_PLANE" /\ FrictionHolds)
           => /\ incline.sim.position = 0
              /\ incline.sim.velocity = 0)
    /\ [][(/\ activeTool = "INCLINED_PLANE"
           /\ activeTool' = "INCLINED_PLANE"
           /\ FrictionHolds
           /\ incline.isRunning
           /\ ~incline'.isRunning)
           => obs'.op \in StopOps]_vars

\* C25 witness: a frame with a positive delta has just been applied to the
\* held block, for the second time at least, and the block is still running
C25_Witness ==
    /\ activeTool = "INCLINED_PLANE"
    /\ FrictionHolds
    /\ obs.op = "frame"
    /\ obs.stepped
    /\ obs.delta > 0
    /\ ~obs.first
    /\ incline.isRunning
    /\ incline.sim.time >= 2000

\* C26: incline: once the block has reached the end of the track, its
\* position and velocity are changed by nothing but a reset or a parameter
\* change: not by a start, a pause or a frame that follows.
C26_CompletedBlockStaysPut ==
    [][(/\ activeTool = "INCLINED_PLANE"
        /\ activeTool' = "INCLINED_PLANE"
        /\ incline.sim.position = MaxPosition
        /\ obs'.op \notin {"reset", "setParameter"})
         => /\ incline'.sim.position = incline.sim.position
            /\ incline'.sim.velocity = incline.sim.velocity]_vars

Reversed(s) == [n \in 1 .. Len(s) |-> s[Len(s) + 1 - n]]

\* the accumulator of a tick that starts from the population ps
TickStart(ps) == [particles |-> ps, integrated |-> <<>>, nonFinite |-> FALSE]

\* C27: within one tick every body is advanced by the net force computed from
\* the positions all bodies had at the start of the tick, and the result of
\* the tick does not depend on the order of the bodies in the population.
C27_TickFromStartPositions ==
    [][obs'.op = "tick"
         => /\ \A i \in 1 .. Len(psim.particles) :
                 psim'.particles[i]
                   = PsimAdvance(TickStart(psim.particles), i, psim.gravity,
                                 psim.electrostatics).particles[i]
            /\ psim'.particles
                 = Reversed(PsimUpdater(Reversed(psim.particles), psim.gravity,
                                        psim.electrostatics).particles)]_vars

\* C28: N-body: a change of the gravity or electrostatic coefficient leaves
\* the running flag and every body unchanged, and the requested gameLoop
\* callback always holds the current coefficient values, so every tick after
\* a change uses the new ones.
C28_CoefficientChangeKeepsBodies ==
    /\ [][(activeTool = "PARTICLE_SIMULATOR" /\ obs'.op = "setParameter")
           => /\ psim'.isRunning = psim.isRunning
              /\ psim'.particles = psim.particles
              /\ psim'.raf = psim.raf]_vars
    /\ [](psim.raf => /\ psim.loopGravity = psim.gravity
                      /\ psim.loopElectrostatics = psim.electrostatics)

\* C28 witness: the gravity slider of the running simulator was moved after
\* a tick, and the gameLoop requested now holds the new value
C28_Witness ==
    /\ activeTool = "PARTICLE_SIMULATOR"
    /\ obs.op = "setParameter"
    /\ obs.wasRunning
    /\ psim.isRunning
    /\ psim.ticks > 0
    /\ psim.raf
    /\ psim.gravity = 0
    /\ psim.loopGravity = 0

\* a frame has just ended the run of the mounted demo
JustCompleted == obs.op = "frame" /\ obs.wasRunning /\ ~DemoRunning

\* C29: MRU and MRUV: in every state the displayed position is
\* S0 + v * t (MRU) or S0 + v0 * t + a * t^2 / 2 with velocity v0 + a * t
\* (MRUV) for the current elapsedTime t, and when a frame completes the run
\* it is the closed-form value at t = totalTime.
C29_PositionIsClosedForm ==
    /\ MRUCurrentPosition(mru)
         = mru.initialPosition * 1000 + mru.velocity * mru.elapsedTime
    /\ MRUVCurrentValues(mruv).position
         = mruv.initialPosition * 1000 + mruv.initialVelocity * mruv.elapsedTime
             + Quot(mruv.acceleration * mruv.elapsedTime * mruv.elapsedTime,
                    20000)
    /\ MRUVCurrentValues(mruv).velocity
         = mruv.initialVelocity * 1000
             + Quot(mruv.acceleration * mruv.elapsedTime, 10)
    /\ (activeTool = "MRU" /\ JustCompleted)
         => MRUCurrentPosition(mru)
              = (mru.initialPosition + mru.velocity * mru.totalTime) * 1000
    /\ (activeTool = "MRUV" /\ JustCompleted)
         => /\ MRUVCurrentValues(mruv).position
                = (mruv.initialPosition + mruv.initialVelocity * mruv.totalTime)
                    * 1000
                  + mruv.acceleration * mruv.totalTime * mruv.totalTime * 50
            /\ MRUVCurrentValues(mruv).velocity
                = mruv.initialVelocity * 1000
                    + mruv.acceleration * mruv.totalTime * 100

\* C29 witness: a frame has completed an accelerated MRUV run from a
\* nonzero initial position
C29_Witness ==
    /\ activeTool = "MRUV"
    /\ JustCompleted
    /\ mruv.acceleration # 0
    /\ mruv.initialPosition # 0
    /\ mruv.elapsedTime > 0

\* C30: MRU, MRUV and projectile: the start command issued when the playback
\* is at its end (elapsedTime >= totalTime, progress >= 100) puts elapsedTime
\* at 0, or the progress and the carried-over progress at 0, and runs; issued
\* before the end it runs from the paused value, which it leaves as it is.
C30_StartRestartsOnlyWhenCompleted ==
    [][(obs'.op = "playPause" /\ ~obs'.wasRunning)
         => /\ activeTool = "MRU"
                 => /\ mru'.isRunning
                    /\ mru'.elapsedTime
                         = IF mru.elapsedTime >= mru.totalTime * 1000
                           THEN 0 ELSE mru.elapsedTime
            /\ activeTool = "MRUV"
                 => /\ mruv'.isRunning
                    /\ mruv'.elapsedTime
                         = IF mruv.elapsedTime >= mruv.totalTime * 1000
                           THEN 0 ELSE mruv.elapsedTime
            /\ activeTool = "PROJECTILE_MOTION"
                 => /\ projectile'.isRunning
                    /\ IF projectile.animationProgress >= FullProgress
                       THEN /\ projectile'.animationProgress = 0
                            /\ projectile'.lastProgressRef = 0
                       ELSE /\ projectile'.animationProgress
                                = projectile.animationProgress
                            /\ projectile'.lastProgressRef
                                = projectile.animationProgress]_vars

\* C30 witness: a start has resumed an MRU run paused part-way
C30_Witness ==
    /\ activeTool = "MRU"
    /\ obs.op = "playPause"
    /\ ~obs.wasRunning
    /\ mru.isRunning
    /\ mru.elapsedTime > 0
    /\ mru.elapsedTime < mru.totalTime * 1000

====
